---------------------------- MODULE Spec2Model ----------------------------
(***************************************************************************)
(* A model of the extraction, retry and categorization-learning pipeline   *)
(* of home-finance (backend/app/services, backend/app/routers).            *)
(*                                                                         *)
(* Conventions                                                             *)
(*   - Python strings that the code inspects character by character are    *)
(*     tuples of one-character strings; Cyrillic letters are written in    *)
(*     their Latin transliteration (the module text is ASCII).             *)
(*   - Numeric(3,2) columns and confidences are integers in hundredths     *)
(*     (95 is 0.95).                                                       *)
(*   - Python None is the string "None"; JSON values are tagged records. *)
(***************************************************************************)
EXTENDS Integers, Sequences, FiniteSets, TLC

VARIABLES
    tx_seq,         \* transactions.id: the last id the table handed out
    corrections,    \* category_corrections: committed rows, in commit order
    mappings,       \* merchant_category_mappings: the set of committed rows
    http_status,    \* the status of the latest response (0: none yet)
    req,            \* per request of the concurrent specification: its position and session
    service,        \* OCRService: whether it has a db session, its user_id, its BACKOFF_BASE
    parser,         \* _call_with_retry: the parser it was called with
    attempt,        \* _call_with_retry: the loop variable
    last_error,     \* _call_with_retry: last_error
    content,        \* the text that the latest _call_vision_api returned
    calls,          \* how many times _call_vision_api was invoked
    attempt_errors, \* the exception of every failed attempt, in order
    sleeps,         \* the delays passed to time.sleep, in order (milliseconds)
    outcome,        \* running, or what the call returned or raised
    files,          \* upload_and_parse_batch: the uploaded files
    batch_results,  \* upload_and_parse_batch: results
    successful,     \* upload_and_parse_batch: successful
    failed,         \* upload_and_parse_batch: failed
    stored,         \* the uploads directory: the files of the batch that are on disk
    response,       \* upload_and_parse_batch: what the handler answered
    workbook,       \* parse_excel_bytes: the rows that the loader returned
    col_mapping,    \* parse_excel_bytes: col_mapping
    excel_pc,       \* parse_excel_bytes: the position in the function
    excel_outcome,  \* parse_excel_bytes: running, or what it returned or raised
    ai_calls,       \* ExcelParsingService._call_ai: the prompt of every call, in order
    descriptions,   \* _categorize_descriptions: descriptions
    is_income,      \* _categorize_descriptions: is_income
    category_map,   \* _categorize_descriptions: result
    needs_ai,       \* _categorize_descriptions: needs_ai
    batch_start,    \* _categorize_descriptions: the loop variable i
    categorize_caller, \* which call of _categorize_descriptions runs: direct, or
                    \* the one for the expenses or the income of parse_excel_bytes
    raw_transactions, \* parse_excel_bytes: raw_transactions
    expense_cat_map, \* parse_excel_bytes: expense_cat_map
    normalizations, \* a description and the results of normalize_merchant_name
                    \* applied to it again and again
    clock,          \* time.time(), in seconds
    ticks,          \* how many times the clock advanced
    limiter,        \* RateLimiter: _store and _last_cleanup
    callers,        \* RateLimiter.check: per calling thread, its position, key and now
    limiter_log,    \* the calls of RateLimiter.check, in the order they held the lock
    failed_logins,  \* routers/auth.py: _failed_logins
    login_log,      \* the login attempts: what each found and what it answered
    tx_table,       \* transactions: the committed rows, by id (in the
                    \* specifications that update or delete them)
    data_version,   \* per user, how many writes to its transactions have committed
    analytics_cache, \* cache.analytics_cache: _store
    handlers,       \* the requests in progress: per thread, its position and locals
    invalidated,    \* per user, the latest data version whose write has
                    \* invalidated the user's cache entries
    request_log     \* the requests that have returned, in order

db_vars == <<tx_seq, corrections, mappings, http_status>>
ocr_vars == <<service, parser, attempt, last_error, content, calls,
              attempt_errors, sleeps, outcome>>
upload_vars == <<files, batch_results, successful, failed, stored, response>>
excel_vars == <<workbook, col_mapping, excel_pc, excel_outcome, ai_calls,
                descriptions, is_income, category_map, needs_ai, batch_start,
                categorize_caller, raw_transactions, expense_cat_map>>
norm_vars == <<normalizations>>
web_vars == <<clock, ticks, limiter, callers, limiter_log, failed_logins, login_log>>
cache_vars == <<tx_table, data_version, analytics_cache, handlers, invalidated, request_log>>
vars == <<tx_seq, corrections, mappings, http_status, req, service, parser, attempt,
          last_error, content, calls, attempt_errors, sleeps, outcome,
          files, batch_results, successful, failed, stored, response,
          workbook, col_mapping, excel_pc, excel_outcome, ai_calls,
          descriptions, is_income, category_map, needs_ai, batch_start,
          categorize_caller, raw_transactions, expense_cat_map, normalizations,
          clock, ticks, limiter, callers, limiter_log, failed_logins, login_log,
          tx_table, data_version, analytics_cache, handlers, invalidated, request_log>>

None == "None"
\* None where a row or a record is expected
NoRow == [none |-> TRUE]
\* a user_id that is None (or 0): not truthy
NoUserId == 0

(***************************************************************************)
(* Bounds of the model.                                                    *)
(***************************************************************************)
MaxTransactions == 5        \* create_transaction calls of the sequential specification
MaxOverrideTransactions == 4 \* create_transaction calls before a learned override is looked up
MaxRaceTransactions == 4    \* create_transaction calls of the concurrent specification

Min(a, b) == IF a <= b THEN a ELSE b
Max(a, b) == IF a >= b THEN a ELSE b

(***************************************************************************)
(* Character helpers for the text functions.                               *)
(***************************************************************************)
UpperLetters == <<"A","B","C","D","E","F","G","H","I","J","K","L","M",
                  "N","O","P","Q","R","S","T","U","V","W","X","Y","Z",
                  "~A","~B","~V","~G","~D","~E","~YO","~ZH","~Z","~I","~J","~K","~L","~M","~N","~O",
                  "~P","~R","~S","~T","~U","~F","~H","~C","~CH","~SH","~SCH","~HS","~Y","~SS","~EH","~YU","~YA">>
LowerLetters == <<"a","b","c","d","e","f","g","h","i","j","k","l","m",
                  "n","o","p","q","r","s","t","u","v","w","x","y","z",
                  "~a","~b","~v","~g","~d","~e","~yo","~zh","~z","~i","~j","~k","~l","~m","~n","~o",
                  "~p","~r","~s","~t","~u","~f","~h","~c","~ch","~sh","~sch","~hs","~y","~ss","~eh","~yu","~ya">>
Digits == {"0","1","2","3","4","5","6","7","8","9"}
Range(s) == {s[i] : i \in DOMAIN s}
IsDigit(c) == c \in Digits
IsSpace(c) == c \in {" ", "\t", "\n", "NBSP"}
IsWordChar(c) == c \in Range(UpperLetters) \cup Range(LowerLetters) \cup Digits \cup {"_"}

\* str.lower() on one character
LowerChar(c) ==
    IF c \in Range(UpperLetters)
    THEN LowerLetters[CHOOSE i \in DOMAIN UpperLetters : UpperLetters[i] = c]
    ELSE c

\* str.lower()
Lower(s) == [i \in DOMAIN s |-> LowerChar(s[i])]

RECURSIVE LStrip(_)
LStrip(s) == IF s # <<>> /\ IsSpace(Head(s)) THEN LStrip(Tail(s)) ELSE s

RECURSIVE RStrip(_)
RStrip(s) ==
    IF s # <<>> /\ IsSpace(s[Len(s)]) THEN RStrip(SubSeq(s, 1, Len(s) - 1)) ELSE s

\* str.strip()
Strip(s) == RStrip(LStrip(s))

\* text[i:] starts with word w (i is 1-based)
StartsAt(text, i, w) ==
    /\ i + Len(w) - 1 <= Len(text)
    /\ \A k \in 1..Len(w) : text[i + k - 1] = w[k]

(***************************************************************************)
(* Regular-expression helpers.  A pattern is given by its match length at  *)
(* every position of the text (0: no match there); re.sub and str.replace  *)
(* then scan left to right and replace the non-overlapping matches.        *)
(***************************************************************************)
\* the length of the longest run of characters of S that starts at text[i]
RunLen(text, i, S) ==
    CHOOSE k \in 0..Max(0, Len(text) - i + 1) :
        /\ \A j \in i..(i + k - 1) : text[j] \in S
        /\ (i + k > Len(text) \/ text[i + k] \notin S)

Whitespace == {" ", "\t", "\n", "NBSP"}
DigitRun(text, i) == RunLen(text, i, Digits)
SpaceRun(text, i) == RunLen(text, i, Whitespace)
CharAt(text, i) == IF i \in DOMAIN text THEN text[i] ELSE "EOS"

\* \b: a word character on exactly one side of position i
WordBoundary(text, i) ==
    IsWordChar(CharAt(text, i - 1)) # IsWordChar(CharAt(text, i))

\* $: the end of the text, or just before a newline that ends it
AtEnd(text, i) ==
    \/ i = Len(text) + 1
    \/ (i = Len(text) /\ text[i] = "\n")

RECURSIVE ReSubFrom(_, _, _, _)
ReSubFrom(text, mlen, repl, i) ==
    IF i > Len(text) THEN <<>>
    ELSE IF mlen[i] > 0
         THEN repl \o ReSubFrom(text, mlen, repl, i + mlen[i])
         ELSE <<text[i]>> \o ReSubFrom(text, mlen, repl, i + 1)

\* re.sub(pattern, repl, text) for the pattern whose match lengths are mlen
ReSub(text, mlen, repl) == ReSubFrom(text, mlen, repl, 1)

\* text.replace(word, repl)
Replace(text, word, repl) ==
    ReSub(text,
          [i \in DOMAIN text |-> IF StartsAt(text, i, word) THEN Len(word) ELSE 0],
          repl)

(***************************************************************************)
(* services/merchant_normalization.py                                      *)
(***************************************************************************)
\* _NOISE_WORDS, in the order of the source
NOISE_WORDS == <<
    <<"~p","~r",".">>,
    <<"~o","~p","~l","~a","~t","~a">>,
    <<"~p","~o","~k","~u","~p","~k","~a">>,
    <<"~p","~e","~r","~e","~v","~o","~d">>,
    <<"p","a","y","m","e","n","t">>,
    <<"p","u","r","c","h","a","s","e">>,
    <<"~s","~p","~i","~s","~a","~n","~i","~e">>,
    <<"~z","~a","~ch","~i","~s","~l","~e","~n","~i","~e">>,
    <<"~v","~o","~z","~v","~r","~a","~t">>,
    <<"~o","~p","~e","~r","~a","~c","~i","~ya">>,
    <<"~p","~o"," ","~k","~a","~r","~t","~e">>,
    <<"~b","~e","~z","~n","~a","~l","~i","~ch","~n","~a","~ya"," ","~o","~p","~l","~a","~t","~a">>,
    <<"~m","~o","~b","~i","~l","~ss","~n","~y","~j"," ","~b","~a","~n","~k">>,
    <<"~o","~p","~l","~a","~t","~a"," ","~t","~o","~v","~a","~r","~o","~v"," ","~i"," ","~u","~s","~l","~u","~g">>
>>

\* the alternatives of _LEGAL_PREFIXES, in the order of the pattern
LEGAL_PREFIX_WORDS == <<
    <<"~o","~o","~o">>,
    <<"~i","~p">>,
    <<"~a","~o">>,
    <<"~p","~a","~o">>,
    <<"~z","~a","~o">>,
    <<"~n","~k","~o">>,
    <<"~u","~k">>
>>

\* sorted(words, key=len, reverse=True): a stable sort, longest first; the
\* place of words[i] is after the longer words and the earlier words as long
SortedPlace(words, i) ==
    1 + Cardinality({j \in DOMAIN words :
            \/ Len(words[j]) > Len(words[i])
            \/ (Len(words[j]) = Len(words[i]) /\ j < i)})
SortedByLenDesc(words) ==
    [p \in DOMAIN words |-> words[CHOOSE i \in DOMAIN words : SortedPlace(words, i) = p]]

\* for word in sorted(_NOISE_WORDS, ...): text = text.replace(word, '')
RECURSIVE RemoveWords(_, _)
RemoveWords(text, words) ==
    IF words = <<>> THEN text
    ELSE RemoveWords(Replace(text, Head(words), <<>>), Tail(words))

\* \b(ooo|ip|ao|pao|zao|nko|uk)\s+ : the first alternative that matches, then spaces
LegalPrefixLen(text, i) ==
    LET alts == {k \in DOMAIN LEGAL_PREFIX_WORDS :
                    /\ StartsAt(Lower(text), i, LEGAL_PREFIX_WORDS[k])
                    /\ SpaceRun(text, i + Len(LEGAL_PREFIX_WORDS[k])) >= 1}
    IN  IF WordBoundary(text, i) /\ alts # {}
        THEN LET k == CHOOSE a \in alts : \A b \in alts : a <= b
                 w == LEGAL_PREFIX_WORDS[k]
             IN  Len(w) + SpaceRun(text, i + Len(w))
        ELSE 0

\* \d{4}[-\s*]\d{4}[-\s*]\d{4}[-\s*]\d{4}
CardNumberLen(text, i) ==
    IF /\ i + 18 <= Len(text)
       /\ \A g \in 0..3 : \A d \in 0..3 : IsDigit(text[i + 5 * g + d])
       /\ \A g \in 0..2 : text[i + 5 * g + 4] \in Whitespace \cup {"-", "*"}
    THEN 19 ELSE 0

\* \d+[.,]\d+
DecimalAmountLen(text, i) ==
    LET d1 == DigitRun(text, i)
        d2 == DigitRun(text, i + d1 + 1)
    IN  IF d1 >= 1 /\ CharAt(text, i + d1) \in {".", ","} /\ d2 >= 1
        THEN d1 + 1 + d2 ELSE 0

\* \d{2}[./-]\d{2}[./-]\d{2,4}
DateLen(text, i) ==
    LET y == Min(4, DigitRun(text, i + 6))
    IN  IF /\ IsDigit(CharAt(text, i)) /\ IsDigit(CharAt(text, i + 1))
           /\ CharAt(text, i + 2) \in {".", "/", "-"}
           /\ IsDigit(CharAt(text, i + 3)) /\ IsDigit(CharAt(text, i + 4))
           /\ CharAt(text, i + 5) \in {".", "/", "-"}
           /\ y >= 2
        THEN 6 + y ELSE 0

\* _TRAILING_REF: [#No.]\s*\d+$
TrailingRefLen(text, i) ==
    LET s == SpaceRun(text, i + 1)
        d == DigitRun(text, i + 1 + s)
    IN  IF text[i] \in {"#", "NUMERO"} /\ d >= 1 /\ AtEnd(text, i + 1 + s + d)
        THEN 1 + s + d ELSE 0

\* _TRAILING_NO: \bno\s*\d+$, ignoring case
TrailingNoLen(text, i) ==
    LET s == SpaceRun(text, i + 2)
        d == DigitRun(text, i + 2 + s)
    IN  IF /\ WordBoundary(text, i)
           /\ StartsAt(Lower(text), i, <<"n", "o">>)
           /\ d >= 1 /\ AtEnd(text, i + 2 + s + d)
        THEN 2 + s + d ELSE 0

\* (?<=\w)[./\\](?=\w)
InnerPunctLen(text, i) ==
    IF /\ text[i] \in {".", "/", "\\"}
       /\ IsWordChar(CharAt(text, i - 1)) /\ IsWordChar(CharAt(text, i + 1))
    THEN 1 ELSE 0

\* [<<>>""\'*]
StrayPunctLen(text, i) ==
    IF text[i] \in {"LAQUO", "RAQUO", "\"", "'", "*"} THEN 1 ELSE 0

MERCHANT_MAX_LEN == 500

\* text.lower().strip(), then the noise words, longest first
StripNoiseWords(description) ==
    RemoveWords(Strip(Lower(description)), SortedByLenDesc(NOISE_WORDS))
StripLegalPrefixes(text) ==
    ReSub(text, [i \in DOMAIN text |-> LegalPrefixLen(text, i)], <<>>)
StripCardNumbers(text) ==
    ReSub(text, [i \in DOMAIN text |-> CardNumberLen(text, i)], <<>>)
StripDecimalAmounts(text) ==
    ReSub(text, [i \in DOMAIN text |-> DecimalAmountLen(text, i)], <<>>)
StripDates(text) ==
    ReSub(text, [i \in DOMAIN text |-> DateLen(text, i)], <<>>)
StripTrailingRef(text) ==
    ReSub(text, [i \in DOMAIN text |-> TrailingRefLen(text, i)], <<>>)
StripTrailingNo(text) ==
    ReSub(text, [i \in DOMAIN text |-> TrailingNoLen(text, i)], <<>>)
SpaceInnerPunct(text) ==
    ReSub(text, [i \in DOMAIN text |-> InnerPunctLen(text, i)], <<" ">>)
StripStrayPunct(text) ==
    ReSub(text, [i \in DOMAIN text |-> StrayPunctLen(text, i)], <<>>)
CleanWhitespace(text) ==
    Strip(ReSub(text, [i \in DOMAIN text |-> SpaceRun(text, i)], <<" ">>))
Truncate(text, n) == SubSeq(text, 1, Min(n, Len(text)))

normalize_merchant_name(description) ==
    Truncate(
        CleanWhitespace(StripStrayPunct(SpaceInnerPunct(
            StripTrailingNo(StripTrailingRef(
                StripDates(StripDecimalAmounts(StripCardNumbers(
                    StripLegalPrefixes(StripNoiseWords(description)))))))))),
        MERCHANT_MAX_LEN)

(***************************************************************************)
(* Values of the learning store.                                           *)
(***************************************************************************)
Users == {1, 2}
Categories == {"Food", "Other"}
AiCategories == Categories \cup {None, ""}

D_OooPyaterochka == <<"~O","~O","~O"," ","~P","~ya","~t","~yo","~r","~o","~ch","~k","~a">>
D_Pyaterochka == <<"~p","~ya","~t","~yo","~r","~o","~ch","~k","~a">>
D_Metro == <<"M","e","t","r","o"," ","#","1","2">>
Descriptions == {D_OooPyaterochka, D_Pyaterochka, D_Metro}

\* merchant keys of the sampled descriptions, each computed once
D_Unknown == <<"U","n","k","n","o","w","n">>
MerchantKeyTable == [d \in Descriptions \cup {D_Unknown} |-> normalize_merchant_name(d)]
MerchantKey(description) ==
    IF description \in DOMAIN MerchantKeyTable THEN MerchantKeyTable[description]
    ELSE normalize_merchant_name(description)
MerchantKeys == {MerchantKeyTable[d] : d \in Descriptions}

\* the request bodies of POST /api/transactions that the model samples
\* (schemas.TransactionCreate: category and ai_category are optional)
TransactionCreates ==
    [description : Descriptions,
     category : Categories \cup {None},
     ai_category : AiCategories]

\* Python truthiness of an optional string
Falsy(v) == v \in {None, ""}

(***************************************************************************)
(* services/learning_service.py                                            *)
(*                                                                         *)
(* A CategoryCorrection row keeps the columns user_id, transaction_id,     *)
(* original_category, corrected_category and merchant_normalized; its      *)
(* confidence and created_at are written once and read by none of the      *)
(* code modelled here.  A MerchantCategoryMapping row keeps id, user_id,   *)
(* merchant_normalized, learned_category, correction_count, confidence.    *)
(***************************************************************************)
PROMOTE_MIN_COUNT == 3
PROMOTE_MIN_PERCENT == 70
CONFIDENCE_CAP == 95

\* Column(Numeric(3, 2)): the ratio num/den as stored, in hundredths, rounded half up
Numeric_3_2(num, den) == (200 * num + den) \div (2 * den)

\* the table as one session sees it: the committed rows and its own flushed row
SessionView(committed, flushed) ==
    IF flushed = NoRow THEN committed ELSE Append(committed, flushed)

\* a variant of NoCorrection that forgets the missing AI category
NoCorrection_OnlyEqual(transaction) ==
    transaction.ai_category = transaction.category

\* log_correction, line 15: nothing to log
NoCorrection(transaction) ==
    Falsy(transaction.ai_category) \/ transaction.ai_category = transaction.category

\* log_correction, lines 18-30: the CategoryCorrection row that is added and flushed
NewCorrection(transaction, user_id) ==
    [user_id |-> user_id,
     transaction_id |-> transaction.id,
     original_category |-> transaction.ai_category,
     corrected_category |-> transaction.category,
     merchant_normalized |-> MerchantKey(transaction.description)]

\* a variant of CategoryCount that counts the corrections of every user
CategoryCount_AnyUser(rows, user_id, merchant, category) ==
    Cardinality({i \in DOMAIN rows :
        /\ rows[i].merchant_normalized = merchant
        /\ rows[i].corrected_category = category})

\* query(CategoryCorrection).filter_by(user_id, merchant_normalized, corrected_category).count()
CategoryCount(rows, user_id, merchant, category) ==
    Cardinality({i \in DOMAIN rows :
        /\ rows[i].user_id = user_id
        /\ rows[i].merchant_normalized = merchant
        /\ rows[i].corrected_category = category})

\* query(CategoryCorrection).filter_by(user_id, merchant_normalized).count()
TotalCount(rows, user_id, merchant) ==
    Cardinality({i \in DOMAIN rows :
        /\ rows[i].user_id = user_id
        /\ rows[i].merchant_normalized = merchant})

\* a variant of PromotionThreshold that asks for the count alone
PromotionThreshold_CountOnly(category_count, total_count) ==
    category_count >= PROMOTE_MIN_COUNT

\* a variant of PromotionThreshold that promotes from 2 corrections on
PromotionThreshold_FromTwo(category_count, total_count) ==
    /\ category_count >= 2
    /\ 100 * category_count >= PROMOTE_MIN_PERCENT * total_count

\* category_count >= 3 and (category_count / total_count) >= 0.7
PromotionThreshold(category_count, total_count) ==
    /\ category_count >= PROMOTE_MIN_COUNT
    /\ 100 * category_count >= PROMOTE_MIN_PERCENT * total_count

\* a variant of MappingConfidence without the cap of 0.95
MappingConfidence_NoCap(category_count, total_count) ==
    Numeric_3_2(category_count, total_count)

\* Decimal(str(min(0.95, category_count / total_count))), as the column stores it
MappingConfidence(category_count, total_count) ==
    IF 100 * category_count >= CONFIDENCE_CAP * total_count
    THEN CONFIDENCE_CAP
    ELSE Numeric_3_2(category_count, total_count)

MappingsOf(maps, user_id, merchant) ==
    {m \in maps : m.user_id = user_id /\ m.merchant_normalized = merchant}

\* query(MerchantCategoryMapping).filter_by(user_id, merchant_normalized).first()
MappingFirst(maps, user_id, merchant) ==
    LET found == MappingsOf(maps, user_id, merchant)
    IN  IF found = {} THEN NoRow
        ELSE CHOOSE m \in found : \A o \in found : m.id <= o.id

\* the primary key a new mapping row gets
NextMappingId(maps) ==
    IF maps = {} THEN 1
    ELSE 1 + (CHOOSE i \in {m.id : m \in maps} : \A m \in maps : m.id <= i)

NoWrite == [kind |-> "none"]

\* a variant of MappingUpsert that adds a row whether or not one was found
MappingUpsert_AlwaysInsert(mapping, merchant, category, user_id, category_count, confidence) ==
    [kind |-> "insert",
     row |-> [id |-> 0,
              user_id |-> user_id,
              merchant_normalized |-> merchant,
              learned_category |-> category,
              correction_count |-> category_count,
              confidence |-> confidence]]

\* _update_merchant_mapping, lines 54-71: the pending write of the session, an
\* UPDATE of the row that was loaded or an INSERT of a new row
MappingUpsert(mapping, merchant, category, user_id, category_count, confidence) ==
    IF mapping # NoRow
    THEN [kind |-> "update",
          loaded |-> mapping,
          row |-> [mapping EXCEPT !.learned_category = category,
                                  !.correction_count = category_count,
                                  !.confidence = confidence]]
    ELSE [kind |-> "insert",
          row |-> [id |-> 0,
                   user_id |-> user_id,
                   merchant_normalized |-> merchant,
                   learned_category |-> category,
                   correction_count |-> category_count,
                   confidence |-> confidence]]

\* a variant of _update_merchant_mapping that writes the mapping whatever the tally
update_merchant_mapping_Unconditional(rows, maps, merchant, category, user_id) ==
    MappingUpsert(MappingFirst(maps, user_id, merchant), merchant, category, user_id,
                  CategoryCount(rows, user_id, merchant, category),
                  MappingConfidence(CategoryCount(rows, user_id, merchant, category),
                                    TotalCount(rows, user_id, merchant)))

\* _update_merchant_mapping on the rows the session sees
update_merchant_mapping(rows, maps, merchant, category, user_id) ==
    LET category_count == CategoryCount(rows, user_id, merchant, category)
        total_count == TotalCount(rows, user_id, merchant)
    IN  IF PromotionThreshold(category_count, total_count)
        THEN MappingUpsert(MappingFirst(maps, user_id, merchant), merchant, category,
                           user_id, category_count,
                           MappingConfidence(category_count, total_count))
        ELSE NoWrite

\* log_correction: what the session holds when it returns, the flushed
\* correction row (or none) and the pending mapping write
log_correction(rows, maps, transaction, user_id) ==
    IF NoCorrection(transaction)
    THEN [correction |-> NoRow, write |-> NoWrite]
    ELSE LET correction == NewCorrection(transaction, user_id)
         IN  [correction |-> correction,
              write |-> update_merchant_mapping(
                            SessionView(rows, correction), maps,
                            correction.merchant_normalized,
                            transaction.category, user_id)]

\* uq_user_merchant: an INSERT of a second row for (user_id, merchant_normalized)
UniqueViolation(maps, write) ==
    /\ write.kind = "insert"
    /\ MappingsOf(maps, write.row.user_id, write.row.merchant_normalized) # {}

\* the unit of work's UPDATE sets the columns whose value differs from the loaded one
UpdatedRow(current, write) ==
    [f \in DOMAIN current |->
        IF write.row[f] # write.loaded[f] THEN write.row[f] ELSE current[f]]

\* the mapping table after the pending write is flushed and committed
MappingsAfter(maps, write) ==
    CASE write.kind = "none" -> maps
      [] write.kind = "insert" ->
            maps \cup {[write.row EXCEPT !.id = NextMappingId(maps)]}
      [] write.kind = "update" ->
            {IF m.id = write.row.id THEN UpdatedRow(m, write) ELSE m : m \in maps}

\* get_learned_category
get_learned_category(maps, description, user_id) ==
    LET mapping == MappingFirst(maps, user_id, MerchantKey(description))
    IN  IF mapping # NoRow
        THEN [category |-> mapping.learned_category, confidence |-> mapping.confidence]
        ELSE NoRow

\* a variant of apply_learned_category that takes every learned category
apply_learned_category_Always(db, maps, user_id, description, category, confidence) ==
    IF ~db \/ user_id = NoUserId
    THEN [category |-> category, confidence |-> confidence]
    ELSE LET learned == get_learned_category(maps, description, user_id)
         IN  IF learned # NoRow
             THEN learned
             ELSE [category |-> category, confidence |-> confidence]

\* a variant of apply_learned_category that also overrides on equal confidence
apply_learned_category_OnTie(db, maps, user_id, description, category, confidence) ==
    IF ~db \/ user_id = NoUserId
    THEN [category |-> category, confidence |-> confidence]
    ELSE LET learned == get_learned_category(maps, description, user_id)
         IN  IF learned # NoRow /\ learned.confidence >= confidence
             THEN learned
             ELSE [category |-> category, confidence |-> confidence]

\* apply_learned_category; db is whether a session was given, user_id may be None
apply_learned_category(db, maps, user_id, description, category, confidence) ==
    IF ~db \/ user_id = NoUserId
    THEN [category |-> category, confidence |-> confidence]
    ELSE LET learned == get_learned_category(maps, description, user_id)
         IN  IF learned # NoRow /\ learned.confidence > confidence
             THEN learned
             ELSE [category |-> category, confidence |-> confidence]

(***************************************************************************)
(* routers/transactions.py: create_transaction, one request at a time.     *)
(***************************************************************************)
Requests == {1, 2}
\* a request that is not running: the transaction it created last (0: none),
\* whether that call flushed a correction, and its response
IdleRequest == [pc |-> "idle", transaction_id |-> 0, logged |-> FALSE, status |-> 0]

\* the Transaction row of create_transaction, lines 69-83
NewTransaction(id, user_id, data) ==
    [id |-> id,
     user_id |-> user_id,
     description |-> data.description,
     category |-> IF Falsy(data.category) THEN "Other" ELSE data.category,
     ai_category |-> data.ai_category]

\* db.commit() of a session: the flush of the pending mapping write may violate
\* uq_user_merchant, and then the whole transaction is rolled back (HTTP 500)
Commit(session) ==
    IF UniqueViolation(mappings, session.write)
    THEN /\ http_status' = 500
         /\ UNCHANGED <<corrections, mappings>>
    ELSE /\ http_status' = 201
         /\ corrections' = SessionView(corrections, session.correction)
         /\ mappings' = MappingsAfter(mappings, session.write)

\* POST /api/transactions: add, flush, log_correction, commit
create_transaction(user_id, data) ==
    /\ tx_seq' = tx_seq + 1
    /\ Commit(log_correction(corrections, mappings,
                             NewTransaction(tx_seq + 1, user_id, data), user_id))
    /\ UNCHANGED req

DbInit ==
    /\ tx_seq = 0
    /\ corrections = <<>>
    /\ mappings = {}
    /\ http_status = 0

NoError == [none |-> TRUE]
Running == [kind |-> "running"]
NoService == [db |-> FALSE, user_id |-> NoUserId, BACKOFF_BASE |-> 1000]   \* OCRService()

\* no OCR call in progress
OcrIdle ==
    /\ service = NoService
    /\ parser = "parse_multiple_response"
    /\ attempt = 0
    /\ last_error = NoError
    /\ content = <<>>
    /\ calls = 0
    /\ attempt_errors = <<>>
    /\ sleeps = <<>>
    /\ outcome = Running

NoResponse == [none |-> TRUE]

\* no batch upload in progress
UploadIdle ==
    /\ files = <<>>
    /\ batch_results = <<>>
    /\ successful = 0
    /\ failed = 0
    /\ stored = {}
    /\ response = NoResponse

\* no spreadsheet being parsed
ExcelIdle ==
    /\ workbook = <<>>
    /\ col_mapping = NoRow
    /\ excel_pc = "idle"
    /\ excel_outcome = Running
    /\ ai_calls = <<>>
    /\ descriptions = <<>>
    /\ is_income = FALSE
    /\ category_map = <<>>
    /\ needs_ai = <<>>
    /\ batch_start = 0
    /\ categorize_caller = "direct"
    /\ raw_transactions = <<>>
    /\ expense_cat_map = <<>>

\* no description being normalized
NormIdle == normalizations = <<>>

\* no rate limiter and no login in use
WebIdle ==
    /\ clock = 0
    /\ ticks = 0
    /\ limiter = [store |-> <<>>, last_cleanup |-> 0]
    /\ callers = <<>>
    /\ limiter_log = <<>>
    /\ failed_logins = <<>>
    /\ login_log = <<>>

\* no stored transaction and no analytics request in use
CacheIdle ==
    /\ tx_table = <<>>
    /\ data_version = <<>>
    /\ analytics_cache = <<>>
    /\ handlers = <<>>
    /\ invalidated = <<>>
    /\ request_log = <<>>

LearnInit ==
    /\ DbInit
    /\ req = [r \in Requests |-> IdleRequest]
    /\ OcrIdle
    /\ UploadIdle
    /\ ExcelIdle
    /\ NormIdle
    /\ WebIdle
    /\ CacheIdle

LearnNext ==
    /\ tx_seq < MaxTransactions
    /\ \E user_id \in Users, data \in TransactionCreates : create_transaction(user_id, data)
    /\ UNCHANGED <<ocr_vars, upload_vars, excel_vars, norm_vars, web_vars, cache_vars>>

\* requests handled one at a time
SpecLearn == LearnInit /\ [][LearnNext]_vars

OverrideNext ==
    /\ tx_seq < MaxOverrideTransactions
    /\ \E user_id \in Users, data \in TransactionCreates : create_transaction(user_id, data)
    /\ UNCHANGED <<ocr_vars, upload_vars, excel_vars, norm_vars, web_vars, cache_vars>>

\* the learning store as the pipelines' override lookup finds it
SpecOverride == LearnInit /\ [][OverrideNext]_vars

(***************************************************************************)
(* Properties of the learning store.                                       *)
(***************************************************************************)
\* the rows of a correction log for (user, merchant key), and those of them that
\* chose category
RowsFor(rows, user_id, merchant) ==
    {i \in DOMAIN rows :
        rows[i].user_id = user_id /\ rows[i].merchant_normalized = merchant}
RowsChoosing(rows, user_id, merchant, category) ==
    {i \in RowsFor(rows, user_id, merchant) : rows[i].corrected_category = category}

\* C1: a call that appends a correction for (user, merchant key, category) creates
\* or updates the mapping of (user, merchant key) in that call if and only if, with
\* the new row counted, the corrections of the pair that chose the category are at
\* least 3 and at least 70% of all corrections of the pair.
C1_PromotionIffThreshold ==
    [][Len(corrections') = Len(corrections) + 1 =>
        LET row == corrections'[Len(corrections')]
            u == row.user_id
            m == row.merchant_normalized
            chosen == Cardinality(RowsChoosing(corrections', u, m, row.corrected_category))
            total == Cardinality(RowsFor(corrections', u, m))
        IN  (MappingsOf(mappings', u, m) # MappingsOf(mappings, u, m))
                <=> (chosen >= 3 /\ 10 * chosen >= 7 * total)]_vars

\* a mapping promoted by 3 corrections of 4 (75%)
C1_Witness ==
    \E m \in mappings :
        /\ m.correction_count = 3
        /\ m.confidence = 75
        /\ Cardinality(RowsFor(corrections, m.user_id, m.merchant_normalized)) = 4

\* C2: at most one mapping row per (user, merchant key) in every reachable state;
\* a promotion that finds a mapping updates it in place, so that no call tries to
\* add a second row (which uq_user_merchant would reject with a failed request).
C2_OneMappingPerKey ==
    /\ \A u \in Users, m \in MerchantKeys : Cardinality(MappingsOf(mappings, u, m)) <= 1
    /\ http_status # 500

\* a mapping promoted a second time: one row, its count now 4
C2_Witness ==
    \E m \in mappings :
        /\ m.correction_count = 4
        /\ MappingsOf(mappings, m.user_id, m.merchant_normalized) = {m}

\* C4: a call whose transaction has no AI category, or one equal to its category,
\* appends no correction and changes no mapping: whenever a call changes either
\* table, it appended exactly one row, whose AI category is present and differs
\* from the corrected category.
C4_NoCorrectionNoChange ==
    [][(corrections' # corrections \/ mappings' # mappings) =>
        /\ Len(corrections') = Len(corrections) + 1
        /\ SubSeq(corrections', 1, Len(corrections)) = corrections
        /\ LET row == corrections'[Len(corrections')]
           IN  /\ ~Falsy(row.original_category)
               /\ row.original_category # row.corrected_category]_vars

\* two calls were handled and neither logged anything
C4_Witness ==
    /\ tx_seq = 2
    /\ corrections = <<>>
    /\ mappings = {}

ConfidenceInputs == {0, 74, 75, 76, 95, 100}

\* C5: with no mapping for (user, key of the description), or one whose confidence
\* is not above the given confidence, apply_learned_category returns the given
\* category and confidence; with a mapping of strictly higher confidence it
\* returns the learned category and the mapping's confidence.
C5_OverrideOnlyIfMoreConfident ==
    \A u \in Users, d \in Descriptions, c \in Categories, conf \in ConfidenceInputs :
        LET found == {m \in mappings :
                        m.user_id = u /\ m.merchant_normalized = MerchantKey(d)}
            out == apply_learned_category(TRUE, mappings, u, d, c, conf)
        IN  /\ found = {} => out = [category |-> c, confidence |-> conf]
            /\ \A m \in found :
                IF m.confidence > conf
                THEN out = [category |-> m.learned_category, confidence |-> m.confidence]
                ELSE out = [category |-> c, confidence |-> conf]

\* a mapping of confidence 0.75 meets an input of confidence 0.75 and another category
C5_Witness ==
    \E m \in mappings :
        /\ m.confidence = 75
        /\ m.learned_category = "Food"
        /\ apply_learned_category(TRUE, mappings, m.user_id, D_OooPyaterochka, "Other", 75)
              = [category |-> "Other", confidence |-> 75]
        /\ m.merchant_normalized = MerchantKey(D_OooPyaterochka)

(***************************************************************************)
(* create_transaction under concurrent requests.  Each request runs in its *)
(* own session and database transaction (READ COMMITTED, the default of    *)
(* the PostgreSQL database of config.py): a statement sees the rows        *)
(* committed before it and the rows its own session flushed.  The steps    *)
(* are the statements of log_correction and _update_merchant_mapping.      *)
(***************************************************************************)
RaceUsers == {1}
RaceCreates ==
    {data \in TransactionCreates :
        /\ data.description = D_Pyaterochka
        /\ data.category \in Categories
        /\ data.ai_category \in Categories \cup {None}}

\* create_transaction lines 69-83 and log_correction lines 15-30: the transaction
\* row is added and flushed, and so is the correction row if there is one to log
RaceBegin(r, user_id, data) ==
    /\ req[r].pc = "idle"
    /\ tx_seq < MaxRaceTransactions
    /\ tx_seq' = tx_seq + 1
    /\ LET transaction == NewTransaction(tx_seq + 1, user_id, data)
       IN  req' = [req EXCEPT ![r] =
                [pc |-> IF NoCorrection(transaction) THEN "commit" ELSE "count_category",
                 user_id |-> user_id,
                 transaction |-> transaction,
                 correction |-> IF NoCorrection(transaction) THEN NoRow
                                ELSE NewCorrection(transaction, user_id),
                 category_count |-> 0,
                 total_count |-> 0,
                 write |-> NoWrite]]
    /\ UNCHANGED <<corrections, mappings, http_status>>

\* _update_merchant_mapping lines 39-43
RaceCountCategory(r) ==
    /\ req[r].pc = "count_category"
    /\ req' = [req EXCEPT ![r].pc = "count_total",
                          ![r].category_count =
                              CategoryCount(SessionView(corrections, req[r].correction),
                                            req[r].user_id,
                                            req[r].correction.merchant_normalized,
                                            req[r].transaction.category)]
    /\ UNCHANGED db_vars

\* _update_merchant_mapping lines 45-48
RaceCountTotal(r) ==
    /\ req[r].pc = "count_total"
    /\ req' = [req EXCEPT ![r].pc = "upsert",
                          ![r].total_count =
                              TotalCount(SessionView(corrections, req[r].correction),
                                         req[r].user_id,
                                         req[r].correction.merchant_normalized)]
    /\ UNCHANGED db_vars

\* _update_merchant_mapping lines 51-71: the threshold, the mapping query and the
\* pending UPDATE or INSERT, which stays in the session until the commit
RaceUpsert(r) ==
    /\ req[r].pc = "upsert"
    /\ req' = [req EXCEPT ![r].pc = "commit",
                          ![r].write =
            IF PromotionThreshold(req[r].category_count, req[r].total_count)
            THEN MappingUpsert(
                    MappingFirst(mappings, req[r].user_id,
                                 req[r].correction.merchant_normalized),
                    req[r].correction.merchant_normalized,
                    req[r].transaction.category,
                    req[r].user_id,
                    req[r].category_count,
                    MappingConfidence(req[r].category_count, req[r].total_count))
            ELSE NoWrite]
    /\ UNCHANGED db_vars

\* create_transaction line 88: db.commit(), then the response
RaceCommit(r) ==
    /\ req[r].pc = "commit"
    /\ Commit([correction |-> req[r].correction, write |-> req[r].write])
    /\ req' = [req EXCEPT ![r] =
                [pc |-> "idle",
                 transaction_id |-> req[r].transaction.id,
                 logged |-> req[r].correction # NoRow,
                 status |-> http_status']]
    /\ UNCHANGED tx_seq

RaceNext ==
    /\ \E r \in Requests :
        \/ \E user_id \in RaceUsers, data \in RaceCreates : RaceBegin(r, user_id, data)
        \/ RaceCountCategory(r)
        \/ RaceCountTotal(r)
        \/ RaceUpsert(r)
        \/ RaceCommit(r)
    /\ UNCHANGED <<ocr_vars, upload_vars, excel_vars, norm_vars, web_vars, cache_vars>>

SpecRace == LearnInit /\ [][RaceNext]_vars

\* C3: under every interleaving of two create_transaction requests for the same
\* (user, merchant key) there are never two mappings for the pair, no request
\* fails, and the correction of every request that logged one is in the log.
C3_RaceOnlyStaleSnapshot ==
    /\ \A u \in Users, m \in MerchantKeys : Cardinality(MappingsOf(mappings, u, m)) <= 1
    /\ http_status # 500
    /\ \A r \in Requests :
        (req[r].pc = "idle" /\ req[r].logged) =>
            \E i \in DOMAIN corrections :
                corrections[i].transaction_id = req[r].transaction_id

(***************************************************************************)
(* The AI response: JSON values as json.loads returns them.  An exception  *)
(* is a record with an "error" field, so that an operator yields either a  *)
(* value or the exception the code raises there.                           *)
(***************************************************************************)
JNull == [t |-> "null"]
\* a key that the JSON object does not carry
JAbsent == [t |-> "absent"]
\* an int or a float; num is its str()
JNum(num) == [t |-> "num", num |-> num]
\* a string that the code inspects character by character
JStr(chars) == [t |-> "str", chars |-> chars]
\* a string that the code only compares or passes on
JName(name) == [t |-> "str", name |-> name]
JList(items) == [t |-> "list", items |-> items]
JDict(map) == [t |-> "dict", map |-> map]
Field(key, value) == IF value = JAbsent THEN <<>> ELSE key :> value

IsDict(v) == v.t = "dict"
IsList(v) == v.t = "list"
IsChars(v) == v.t = "str" /\ "chars" \in DOMAIN v
\* dict.get(key, default)
Get(data, key, default) ==
    IF key \in DOMAIN data.map THEN data.map[key] ELSE default

Raise(type, msg) == [error |-> type, msg |-> msg]
IsError(v) == "error" \in DOMAIN v
InvalidOperation == Raise("InvalidOperation", "ConversionSyntax")

\* str(value); a value that is neither a number nor a string prints as text that
\* starts with a letter or a bracket
PyStr(v) ==
    CASE v.t = "num" -> v.num
      [] IsChars(v) -> v.chars
      [] v.t = "null" -> <<"N", "o", "n", "e">>
      [] v.t = "list" -> <<"[", "]">>
      [] v.t = "dict" -> <<"{", "}">>
      [] OTHER -> <<"?">>

(***************************************************************************)
(* decimal.Decimal: a finite value is its sign, its coefficient and the    *)
(* number of digits after the point.  The texts of the model carry no      *)
(* exponent and no underscore.                                             *)
(***************************************************************************)
DigitChars == <<"0","1","2","3","4","5","6","7","8","9">>
DigitValue(c) == (CHOOSE i \in DOMAIN DigitChars : DigitChars[i] = c) - 1

RECURSIVE DigitsValue(_)
DigitsValue(s) ==
    IF s = <<>> THEN 0
    ELSE 10 * DigitsValue(SubSeq(s, 1, Len(s) - 1)) + DigitValue(s[Len(s)])

\* the characters of text that are not in S
Remove(text, S) == SelectSeq(text, LAMBDA c : c \notin S)

\* Decimal(text) once the sign is taken off
DecimalOfBody(body, neg) ==
    IF Lower(body) = <<"n", "a", "n">> THEN [kind |-> "nan"]
    ELSE IF Lower(body) \in {<<"i","n","f">>, <<"i","n","f","i","n","i","t","y">>}
    THEN [kind |-> "inf", neg |-> neg]
    ELSE IF /\ Cardinality({i \in DOMAIN body : body[i] = "."}) <= 1
            /\ \E i \in DOMAIN body : IsDigit(body[i])
            /\ \A i \in DOMAIN body : body[i] = "." \/ IsDigit(body[i])
    THEN [kind |-> "finite",
          neg |-> neg,
          coef |-> DigitsValue(Remove(body, {"."})),
          places |-> IF "." \notin Range(body) THEN 0
                     ELSE Len(body) - (CHOOSE i \in DOMAIN body : body[i] = ".")]
    ELSE InvalidOperation

\* Decimal(text) of a text without surrounding white space
DecimalOfStripped(s) ==
    IF s # <<>> /\ Head(s) \in {"+", "-"}
    THEN DecimalOfBody(Tail(s), Head(s) = "-")
    ELSE DecimalOfBody(s, FALSE)

\* Decimal(text)
Decimal(text) == DecimalOfStripped(Strip(text))

DecimalZero == [kind |-> "finite", neg |-> FALSE, coef |-> 0, places |-> 0]

\* abs(amount) of a Decimal; the exception is passed on
DecimalAbs(d) ==
    IF IsError(d) \/ d.kind = "nan" THEN d ELSE [d EXCEPT !.neg = FALSE]

(***************************************************************************)
(* OCRService._parse_amount                                                *)
(***************************************************************************)
CURRENCY_SYMBOLS ==
    << <<"RUBLE">>, <<"$">>, <<"EURO">>,
       <<"~r", "~u", "~b", ".">>, <<"~r", "~u", "~b">>, <<"~r", ".">> >>

RECURSIVE LStripChars(_, _)
LStripChars(s, S) ==
    IF s # <<>> /\ Head(s) \in S THEN LStripChars(Tail(s), S) ELSE s

\* text.lstrip("<minus sign>-+").strip()
StripSign(text) == Strip(LStripChars(text, {"MINUS", "-", "+"}))

\* a comma and no dot: the comma is the decimal separator; spaces group thousands
SeparatorsToDot(text) ==
    IF "," \in Range(text) /\ "." \notin Range(text)
    THEN Replace(Remove(text, {" ", "NBSP"}), <<",">>, <<".">>)
    ELSE Remove(text, {" ", "NBSP"})

AmountText(raw_amount) ==
    SeparatorsToDot(StripSign(RemoveWords(Strip(PyStr(raw_amount)), CURRENCY_SYMBOLS)))

\* OCRService._parse_amount: the Decimal, or InvalidOperation
parse_amount(raw_amount) == DecimalAbs(Decimal(AmountText(raw_amount)))

(***************************************************************************)
(* ocr_service.py: the helpers of _parse_single_tx.  A datetime is its     *)
(* fields; the date texts of the model write day, month, hour, minute and  *)
(* second with two digits and the year with four.                          *)
(***************************************************************************)
Now == [now |-> TRUE]

AllDigits(text, i, n) ==
    /\ i + n - 1 <= Len(text)
    /\ \A k \in i..(i + n - 1) : IsDigit(text[k])
NumberAt(text, i, n) == DigitsValue(SubSeq(text, i, i + n - 1))

IsLeap(y) == (y % 4 = 0 /\ y % 100 # 0) \/ y % 400 = 0
DaysInMonth(y, m) ==
    IF m = 2 THEN (IF IsLeap(y) THEN 29 ELSE 28)
    ELSE IF m \in {4, 6, 9, 11} THEN 30 ELSE 31
ValidDate(y, m, d) == y >= 1 /\ m \in 1..12 /\ d \in 1..DaysInMonth(y, m)

\* year-month-day at the start of the text, fields separated by "-"
YmdShape(text) ==
    /\ Len(text) >= 10
    /\ AllDigits(text, 1, 4) /\ text[5] = "-"
    /\ AllDigits(text, 6, 2) /\ text[8] = "-"
    /\ AllDigits(text, 9, 2)
    /\ ValidDate(NumberAt(text, 1, 4), NumberAt(text, 6, 2), NumberAt(text, 9, 2))
\* THH:MM:SS from position 11
TimeShape(text) ==
    /\ Len(text) = 19
    /\ text[11] \in {"T", " "}
    /\ AllDigits(text, 12, 2) /\ text[14] = ":"
    /\ AllDigits(text, 15, 2) /\ text[17] = ":"
    /\ AllDigits(text, 18, 2)
    /\ NumberAt(text, 12, 2) <= 23 /\ NumberAt(text, 15, 2) <= 59 /\ NumberAt(text, 18, 2) <= 59
\* day, month, year separated by sep
DmyShape(text, sep) ==
    /\ Len(text) = 10
    /\ AllDigits(text, 1, 2) /\ text[3] = sep
    /\ AllDigits(text, 4, 2) /\ text[6] = sep
    /\ AllDigits(text, 7, 4)
    /\ ValidDate(NumberAt(text, 7, 4), NumberAt(text, 4, 2), NumberAt(text, 1, 2))

DateTime(y, m, d, hh, mm, ss) ==
    [year |-> y, month |-> m, day |-> d, hour |-> hh, minute |-> mm, second |-> ss]

\* _parse_date: the first of DATE_FORMATS that accepts the text, else now()
parse_date(date_str) ==
    IF ~IsChars(date_str) THEN Now
    ELSE LET text == date_str.chars
         IN  IF YmdShape(text) /\ TimeShape(text)
             THEN DateTime(NumberAt(text, 1, 4), NumberAt(text, 6, 2), NumberAt(text, 9, 2),
                           NumberAt(text, 12, 2), NumberAt(text, 15, 2), NumberAt(text, 18, 2))
             ELSE IF YmdShape(text) /\ Len(text) = 10
             THEN DateTime(NumberAt(text, 1, 4), NumberAt(text, 6, 2), NumberAt(text, 9, 2), 0, 0, 0)
             ELSE IF DmyShape(text, ".") \/ DmyShape(text, "/")
             THEN DateTime(NumberAt(text, 7, 4), NumberAt(text, 4, 2), NumberAt(text, 1, 2), 0, 0, 0)
             ELSE Now

VALID_CATEGORIES ==
    {"Food", "Transport", "Entertainment", "Shopping", "Bills", "Health", "Other",
     "Salary", "Transfer", "Cashback", "Investment", "OtherIncome"}

\* a list or a dict cannot be looked up in a set: TypeError
Unhashable(v) == v.t \in {"list", "dict"}

\* _normalize_category (of a hashable value)
normalize_category(category) ==
    IF "name" \in DOMAIN category /\ category.name \in VALID_CATEGORIES
    THEN category.name
    ELSE "Other"

RECURSIVE Pow10(_)
Pow10(n) == IF n = 0 THEN 1 ELSE 10 * Pow10(n - 1)
\* a finite value in hundredths (the confidences of the model have two decimals)
Hundredths(d) == (d.coef * 100) \div Pow10(d.places)

DEFAULT_CONFIDENCE == 50
\* float(value) for the Decimal d that the text of value reads as, or the exception
FloatOr(value, d) ==
    IF value.t = "num" \/ IsChars(value)
    THEN (IF IsError(d) THEN Raise("ValueError", "could not convert to float") ELSE d)
    ELSE IF "name" \in DOMAIN value THEN Raise("ValueError", "could not convert to float")
    ELSE Raise("TypeError", "float() argument")
\* float(value)
PyFloat(value) == FloatOr(value, Decimal(PyStr(value)))

\* max(0.0, min(1.0, conf)): min and max keep their first argument against nan
Clamp01(conf) ==
    CASE conf.kind = "nan" -> 100
      [] conf.kind = "inf" -> (IF conf.neg THEN 0 ELSE 100)
      [] OTHER -> IF conf.neg THEN 0 ELSE Min(100, Hundredths(conf))

ClampOr(conf, default) == IF IsError(conf) THEN default ELSE Clamp01(conf)
\* _clamp_confidence
clamp_confidence(value, default) == ClampOr(PyFloat(value), default)

\* str.upper()
UpperChar(c) ==
    IF c \in Range(LowerLetters)
    THEN UpperLetters[CHOOSE i \in DOMAIN LowerLetters : LowerLetters[i] = c]
    ELSE c
Upper(s) == [i \in DOMAIN s |-> UpperChar(s[i])]

RUB == <<"R", "U", "B">>
\* the currency of _parse_single_tx: a string of three characters, else RUB; upper case
TxCurrency(currency) ==
    IF IsChars(currency) /\ Len(currency.chars) = 3 THEN Upper(currency.chars) ELSE RUB

\* the validation of schemas.ParsedTransaction (pydantic): a finite amount, a string
\* description
ValidationError(amount, description) ==
    amount.kind # "finite" \/ ~IsChars(description)

\* lines 284-293: ParsedTransaction(...)
ParsedTransaction(data, amount, description, learned) ==
    [amount |-> amount,
     description |-> description.chars,
     date |-> parse_date(Get(data, "date", JStr(<<>>))),
     category |-> learned.category,
     currency |-> TxCurrency(Get(data, "currency", JStr(RUB))),
     raw_text |-> <<>>,
     confidence |-> learned.confidence]

\* lines 261-293 for the amount that _parse_amount gave
SingleTx(db, maps, user_id, data, amount, description, category) ==
    IF IsError(amount) THEN NoRow
    ELSE IF Unhashable(category) THEN Raise("TypeError", "unhashable type")
    ELSE IF db /\ user_id # NoUserId /\ ~IsChars(description)
    THEN Raise("AttributeError", "lower")
    ELSE IF ValidationError(amount, description) THEN Raise("ValueError", "ValidationError")
    ELSE ParsedTransaction(data, amount, description,
            apply_learned_category(db, maps, user_id, description.chars,
                normalize_category(category),
                clamp_confidence(Get(data, "confidence", JNum(<<"0", ".", "5">>)),
                                 DEFAULT_CONFIDENCE)))

\* OCRService._parse_single_tx: a ParsedTransaction, None (NoRow) when the amount
\* is missing or does not parse, or the exception that escapes
parse_single_tx(db, maps, user_id, data) ==
    IF ~IsDict(data) THEN Raise("AttributeError", "get")
    ELSE IF "amount" \notin DOMAIN data.map THEN NoRow
    ELSE SingleTx(db, maps, user_id, data,
                  parse_amount(data.map["amount"]),
                  Get(data, "description", JStr(D_Unknown)),
                  Get(data, "category", JName("Other")))

(***************************************************************************)
(* The response text is a sequence of lexical pieces: a markdown fence, the *)
(* word json after it, white space, prose without brackets, a complete      *)
(* JSON document (doc, with the value it decodes to), and a bracket that    *)
(* opens no valid JSON (broken).                                            *)
(***************************************************************************)
TFence == [tok |-> "fence"]
TJson == [tok |-> "json"]
TSpace == [tok |-> "ws"]
TProse == [tok |-> "prose"]
TBroken == [tok |-> "broken"]
TDoc(value) == [tok |-> "doc", value |-> value]

RECURSIVE LStripTokens(_)
LStripTokens(text) ==
    IF text # <<>> /\ Head(text) = TSpace THEN LStripTokens(Tail(text)) ELSE text
RECURSIVE RStripTokens(_)
RStripTokens(text) ==
    IF text # <<>> /\ text[Len(text)] = TSpace
    THEN RStripTokens(SubSeq(text, 1, Len(text) - 1)) ELSE text
StripTokens(text) == RStripTokens(LStripTokens(text))

\* re.sub(r"^```(?:json)?\s*", "", stripped)
StripOpeningFence(text) ==
    IF text # <<>> /\ Head(text) = TFence
    THEN (IF Len(text) >= 2 /\ text[2] = TJson
          THEN LStripTokens(SubSeq(text, 3, Len(text)))
          ELSE LStripTokens(Tail(text)))
    ELSE text
\* re.sub(r"\s*```$", "", stripped)
StripClosingFence(text) ==
    IF text # <<>> /\ text[Len(text)] = TFence
    THEN RStripTokens(SubSeq(text, 1, Len(text) - 1))
    ELSE text

\* _strip_markdown_fences
strip_markdown_fences(text) ==
    StripTokens(StripClosingFence(StripOpeningFence(StripTokens(text))))

\* the positions where decoder.raw_decode(text, i) succeeds: an object or an array
DecodablePositions(text) ==
    {i \in DOMAIN text : text[i].tok = "doc" /\ text[i].value.t \in {"dict", "list"}}

\* _extract_json for the text that _strip_markdown_fences gave
ExtractFrom(text, stripped) ==
    IF Len(stripped) = 1 /\ stripped[1].tok = "doc"
    THEN stripped[1].value
    ELSE IF DecodablePositions(text) # {}
    THEN text[CHOOSE i \in DecodablePositions(text) :
                \A j \in DecodablePositions(text) : i <= j].value
    ELSE Raise("ValueError", "No valid JSON found in AI response")

\* _extract_json: the decoded value, or ValueError
extract_json(text) == ExtractFrom(text, strip_markdown_fences(text))

(***************************************************************************)
(* OCRService._parse_chart                                                 *)
(***************************************************************************)
IsZero(d) == ~IsError(d) /\ d.kind = "finite" /\ d.coef = 0

\* Python truthiness of a JSON value
Truthy(v) ==
    CASE v.t = "null" -> FALSE
      [] v.t = "absent" -> FALSE
      [] v.t = "num" -> ~IsZero(Decimal(v.num))
      [] IsChars(v) -> v.chars # <<>>
      [] v.t = "list" -> v.items # <<>>
      [] v.t = "dict" -> DOMAIN v.map # {}
      [] OTHER -> v.name # ""

\* lines 405-411 for the converted value and percentage of an entry
ChartCategory(name, value, percentage, percentage_float) ==
    IF IsError(value) THEN NoRow
    ELSE IF percentage # JNull /\ IsError(percentage_float) THEN NoRow
    ELSE [name |-> name,
          value |-> value,
          percentage |-> IF percentage = JNull THEN NoRow ELSE percentage_float]

\* one entry of chart["categories"]: the parsed entry, NoRow when the entry is
\* skipped (InvalidOperation, TypeError, ValueError), or AttributeError
parse_chart_category(cat) ==
    IF ~IsDict(cat) THEN Raise("AttributeError", "get")
    ELSE ChartCategory(Get(cat, "name", JStr(D_Unknown)),
                       Decimal(PyStr(Get(cat, "value", JNum(<<"0">>)))),
                       Get(cat, "percentage", JNull),
                       PyFloat(Get(cat, "percentage", JNull)))

\* the entries that a loop over a JSON value visits
IterItems(v) ==
    CASE v.t = "list" -> v.items
      [] v.t = "dict" -> [i \in 1..Cardinality(DOMAIN v.map) |-> JName("key")]
      [] IsChars(v) -> [i \in DOMAIN v.chars |-> JName("char")]
      [] OTHER -> <<>>

CategoryResults(items) == [i \in DOMAIN items |-> parse_chart_category(items[i])]

\* lines 413-423 for the entries that were kept
ChartOf(chart, parsed_categories, total) ==
    IF parsed_categories = <<>> THEN NoRow
    ELSE IF IsError(total) THEN total
    ELSE [type |-> Get(chart, "type", JName("unknown")),
          categories |-> parsed_categories,
          total |-> total,
          period |-> Get(chart, "period", JNull),
          period_type |-> Get(chart, "period_type", JName("month")),
          confidence |-> clamp_confidence(Get(chart, "confidence", JNum(<<"0", ".", "5">>)),
                                          DEFAULT_CONFIDENCE)]

\* lines 402-423 for the results of the entries
ChartFrom(chart, results) ==
    IF \E i \in DOMAIN results : IsError(results[i])
    THEN Raise("AttributeError", "get")
    ELSE ChartOf(chart, SelectSeq(results, LAMBDA c : c # NoRow),
                 Decimal(PyStr(Get(chart, "total", JNum(<<"0">>)))))

\* OCRService._parse_chart: the chart, None (NoRow), or the exception that escapes
parse_chart(chart) ==
    IF ~Truthy(chart) THEN NoRow
    ELSE IF ~IsDict(chart) THEN Raise("AttributeError", "get")
    ELSE IF Get(chart, "categories", JList(<<>>)).t \in {"null", "num"}
    THEN NoRow   \* TypeError: not iterable, caught
    ELSE ChartFrom(chart, CategoryResults(IterItems(Get(chart, "categories", JList(<<>>)))))

(***************************************************************************)
(* OCRService._parse_multiple_response and _parse_response                 *)
(***************************************************************************)
\* a + b of two finite, non-negative Decimals
DecimalAdd(a, b) ==
    [kind |-> "finite", neg |-> FALSE,
     coef |-> a.coef * Pow10(Max(a.places, b.places) - a.places)
              + b.coef * Pow10(Max(a.places, b.places) - b.places),
     places |-> Max(a.places, b.places)]

\* sum(tx.amount for tx in parsed_transactions)
RECURSIVE SumAmounts(_)
SumAmounts(txs) ==
    IF txs = <<>> THEN DecimalZero
    ELSE DecimalAdd(SumAmounts(SubSeq(txs, 1, Len(txs) - 1)), txs[Len(txs)].amount)

\* the loop over transactions_data: what _parse_single_tx gives for every entry
SingleResults(db, maps, user_id, items) ==
    [i \in DOMAIN items |-> parse_single_tx(db, maps, user_id, items[i])]

\* tx.raw_text = response_text
WithRawText(txs, response_text) ==
    [i \in DOMAIN txs |-> [txs[i] EXCEPT !.raw_text = response_text]]

\* the first exception of the loop
FirstError(results) ==
    results[CHOOSE i \in DOMAIN results :
                /\ IsError(results[i])
                /\ \A j \in 1..(i - 1) : ~IsError(results[j])]

\* lines 381-385 for the Decimal that data["total_amount"] reads as
TotalOr(total, parsed_transactions) ==
    IF IsError(total) THEN SumAmounts(parsed_transactions) ELSE total

\* lines 380-392: the result of a response without a chart
TransactionsResult(data, parsed_transactions, response_text) ==
    [transactions |-> parsed_transactions,
     total_amount |-> TotalOr(Decimal(PyStr(Get(data, "total_amount", JNum(<<"0">>)))),
                              parsed_transactions),
     chart |-> NoRow,
     raw_text |-> response_text]

\* a variant of MultipleResult that returns the parsed transactions next to the chart
MultipleResult_KeepTransactions(data, results, chart_data, response_text) ==
    IF \E i \in DOMAIN results : IsError(results[i]) THEN FirstError(results)
    ELSE IF IsError(chart_data) THEN chart_data
    ELSE IF chart_data # NoRow
    THEN [transactions |-> WithRawText(SelectSeq(results, LAMBDA tx : tx # NoRow), response_text),
          total_amount |-> chart_data.total,
          chart |-> chart_data,
          raw_text |-> response_text]
    ELSE TransactionsResult(data,
            WithRawText(SelectSeq(results, LAMBDA tx : tx # NoRow), response_text),
            response_text)

\* lines 358-392 for the results of the loop and of _parse_chart
MultipleResult(data, results, chart_data, response_text) ==
    IF \E i \in DOMAIN results : IsError(results[i]) THEN FirstError(results)
    ELSE IF IsError(chart_data) THEN chart_data
    ELSE IF chart_data # NoRow
    THEN [transactions |-> <<>>,
          total_amount |-> chart_data.total,
          chart |-> chart_data,
          raw_text |-> response_text]
    ELSE TransactionsResult(data,
            WithRawText(SelectSeq(results, LAMBDA tx : tx # NoRow), response_text),
            response_text)

\* lines 351-392 for the value that _extract_json gave
MultipleFrom(db, maps, user_id, data, response_text) ==
    IF IsError(data) THEN data
    ELSE IF ~IsDict(data) THEN Raise("ValueError", "Unexpected response format")
    ELSE IF ~IsList(Get(data, "transactions", JList(<<>>)))
    THEN Raise("ValueError", "Expected 'transactions' to be an array")
    ELSE MultipleResult(data,
            SingleResults(db, maps, user_id, Get(data, "transactions", JList(<<>>)).items),
            parse_chart(Get(data, "chart", JNull)),
            response_text)

\* OCRService._parse_multiple_response: the result dict, or the exception raised
parse_multiple_response(db, maps, user_id, response_text) ==
    MultipleFrom(db, maps, user_id, extract_json(response_text), response_text)

\* lines 328-338 of _parse_response: the dict of the single transaction
SingleData(data) ==
    IF IsList(data) THEN data.items[1]
    ELSE data
FirstTransaction(data) ==
    IF /\ "transactions" \in DOMAIN data.map
       /\ IsList(data.map["transactions"])
       /\ data.map["transactions"].items # <<>>
    THEN data.map["transactions"].items[1]
    ELSE data

\* lines 340-345
SingleResult(result, response_text) ==
    IF result = NoRow THEN Raise("ValueError", "Invalid amount in AI response")
    ELSE IF IsError(result) THEN result
    ELSE [result EXCEPT !.raw_text = response_text]

\* lines 328-345 for the value that _extract_json gave
SingleFrom(db, maps, user_id, data, response_text) ==
    IF IsError(data) THEN data
    ELSE IF IsList(data) /\ data.items = <<>>
    THEN Raise("ValueError", "AI returned empty transaction list")
    ELSE IF ~IsDict(SingleData(data))
    THEN Raise("ValueError", "Unexpected response format")
    ELSE SingleResult(parse_single_tx(db, maps, user_id, FirstTransaction(SingleData(data))),
                      response_text)

\* OCRService._parse_response: the ParsedTransaction, or the exception raised
parse_response(db, maps, user_id, response_text) ==
    SingleFrom(db, maps, user_id, extract_json(response_text), response_text)

(***************************************************************************)
(* OCRService._is_retriable and _call_with_retry                           *)
(***************************************************************************)
MAX_RETRIES == 3
BACKOFF_BASE == 1000    \* milliseconds

APIStatusError(status_code) == [error |-> "APIStatusError", status_code |-> status_code]
APITimeoutError == Raise("APITimeoutError", "Request timed out.")
APIConnectionError == Raise("APIConnectionError", "Connection error.")

\* a variant of _is_retriable that does not retry parse failures
is_retriable_NoParseFailure(exc) ==
    \/ exc.error \in {"APITimeoutError", "APIConnectionError"}
    \/ (exc.error = "APIStatusError" /\ exc.status_code >= 500)
    \/ (exc.error = "APIStatusError" /\ exc.status_code = 429)

\* a variant of _is_retriable that retries every HTTP error status
is_retriable_AnyStatus(exc) ==
    \/ exc.error \in {"APITimeoutError", "APIConnectionError"}
    \/ exc.error = "APIStatusError"
    \/ exc.error \in {"ValueError", "KeyError"}

\* OCRService._is_retriable
is_retriable(exc) ==
    \/ exc.error \in {"APITimeoutError", "APIConnectionError"}
    \/ (exc.error = "APIStatusError" /\ exc.status_code >= 500)
    \/ (exc.error = "APIStatusError" /\ exc.status_code = 429)
    \/ exc.error \in {"ValueError", "KeyError"}

\* the exceptions that the except clause of _call_with_retry catches
Caught(exc) ==
    exc.error \in {"ValueError", "KeyError", "APITimeoutError", "APIConnectionError",
                   "APIStatusError"}

\* parser(response_text) for the bound methods that _call_with_retry is given
Parse(svc, maps, method, response_text) ==
    IF method = "parse_response"
    THEN parse_response(svc.db, maps, svc.user_id, response_text)
    ELSE parse_multiple_response(svc.db, maps, svc.user_id, response_text)

\* the try block: what _call_vision_api did, then the parser; api is the
\* exception of the client, or the content of the completion
TryBlock(svc, maps, method, api) ==
    IF IsError(api) THEN api
    ELSE IF api.content = <<>> THEN Raise("ValueError", "AI returned empty response")
    ELSE Parse(svc, maps, method, api.content)

RECURSIVE Pow2(_)
Pow2(n) == IF n = 0 THEN 1 ELSE 2 * Pow2(n - 1)

\* a variant of the assignment of last_error that keeps the first exception
LastError_KeepFirst(previous, e) == IF previous = NoError THEN e ELSE previous

\* last_error = e
LastError(previous, e) == e

\* the except clause and the end of the loop body, for the exception e
AttemptFailed(e) ==
    /\ attempt_errors' = Append(attempt_errors, e)
    /\ IF ~Caught(e)
       THEN /\ outcome' = [kind |-> "raised", error |-> e]
            /\ UNCHANGED <<attempt, last_error, sleeps>>
       ELSE /\ last_error' = LastError(last_error, e)
            /\ IF ~is_retriable(e) \/ attempt = MAX_RETRIES - 1
               THEN /\ outcome' = [kind |-> "raised", error |-> last_error']
                    /\ UNCHANGED <<attempt, sleeps>>
               ELSE /\ sleeps' = Append(sleeps, service.BACKOFF_BASE * Pow2(attempt))
                    /\ attempt' = attempt + 1
                    /\ UNCHANGED outcome

\* the loop body for what the try block gave
AttemptResult(result) ==
    IF IsError(result)
    THEN AttemptFailed(result)
    ELSE /\ outcome' = [kind |-> "returned", value |-> result]
         /\ UNCHANGED <<attempt, last_error, attempt_errors, sleeps>>

\* one iteration of the loop of _call_with_retry, up to the return, the raise or
\* the end of time.sleep
RetryAttempt(api) ==
    /\ outcome = Running
    /\ attempt < MAX_RETRIES
    /\ calls' = calls + 1
    /\ content' = IF IsError(api) THEN content ELSE api.content
    /\ AttemptResult(TryBlock(service, mappings, parser, api))
    /\ UNCHANGED <<db_vars, req, service, parser, upload_vars, excel_vars, norm_vars, web_vars, cache_vars>>

(***************************************************************************)
(* The responses that the model samples.                                   *)
(***************************************************************************)
Tx_Metro ==
    JDict(("amount" :> JStr(<<"1", " ", "5", "0", "0", ",", "5", "0">>))
          @@ ("description" :> JStr(D_Metro))
          @@ ("date" :> JStr(<<"2","0","2","6","-","0","1","-","1","5","T","1","4",":","3","0",":","0","0">>))
          @@ ("category" :> JName("Transport"))
          @@ ("type" :> JName("expense"))
          @@ ("currency" :> JStr(<<"u", "s", "d">>))
          @@ ("confidence" :> JNum(<<"0", ".", "9">>)))
Tx_Pyaterochka ==
    JDict(("amount" :> JNum(<<"2", "5", "0">>))
          @@ ("description" :> JStr(D_Pyaterochka))
          @@ ("date" :> JStr(<<"1","5",".","0","1",".","2","0","2","6">>))
          @@ ("category" :> JName("Groceries")))
Tx_BadAmount == JDict(("amount" :> JStr(<<"a", "b", "c">>)) @@ ("description" :> JStr(D_Metro)))
Tx_NoAmount == JDict("description" :> JStr(D_Metro))
Tx_NanAmount == JDict(("amount" :> JStr(<<"n", "a", "n">>)) @@ ("description" :> JStr(D_Metro)))
Tx_NotADict == JStr(D_Metro)
\* a refund and a free item
Tx_Negative ==
    JDict(("amount" :> JStr(<<"MINUS", "2", "5", "0", ",", "0", "0", " ", "RUBLE">>))
          @@ ("description" :> JStr(D_Metro)))
Tx_ZeroAmount == JDict(("amount" :> JNum(<<"0">>)) @@ ("description" :> JStr(D_Metro)))
\* income with a category of the income list, and with a category of no list
Tx_Salary ==
    JDict(("amount" :> JNum(<<"9", "0", "0">>)) @@ ("description" :> JStr(D_Unknown))
          @@ ("category" :> JName("Salary")) @@ ("type" :> JName("income")))
Tx_Bonus ==
    JDict(("amount" :> JNum(<<"9", "0", "0">>)) @@ ("description" :> JStr(D_Unknown))
          @@ ("category" :> JName("Bonus")) @@ ("type" :> JName("income")))

TransactionLists ==
    {JAbsent, JName("none"), JList(<<>>), JList(<<Tx_Metro>>), JList(<<Tx_Metro, Tx_Pyaterochka>>),
     JList(<<Tx_BadAmount, Tx_Metro>>), JList(<<Tx_NoAmount>>), JList(<<Tx_NanAmount, Tx_Metro>>),
     JList(<<Tx_Metro, Tx_NotADict>>)}

Cat_Food ==
    JDict(("name" :> JStr(<<"F", "o", "o", "d">>)) @@ ("value" :> JNum(<<"1", "0", "0", "0">>))
          @@ ("percentage" :> JNum(<<"4", "5", ".", "5">>)))
Cat_Taxi == JDict(("name" :> JStr(<<"T", "a", "x", "i">>)) @@ ("value" :> JStr(<<"7", ".", "2", "5">>)))
Cat_BadValue == JDict(("name" :> JStr(<<"T", "a", "x", "i">>)) @@ ("value" :> JStr(<<"b", "a", "d">>)))
Cat_BadPercentage ==
    JDict(("value" :> JNum(<<"5">>)) @@ ("percentage" :> JStr(<<"z", "z">>)))

CategoryLists ==
    {JAbsent, JNull, JList(<<>>), JList(<<Cat_Food>>), JList(<<Cat_BadValue, Cat_Food, Cat_Taxi>>),
     JList(<<Cat_BadValue, Cat_BadPercentage>>), JList(<<Cat_Food, JNull>>)}
ChartTotals == {JAbsent, JNum(<<"2", "2", "0", "0">>), JStr(<<"8", ".", "1", "0">>),
                JStr(<<"N", "/", "A">>), JNull}

Chart(categories, total) ==
    JDict(("type" :> JName("pie")) @@ Field("categories", categories) @@ Field("total", total))
Charts ==
    {JAbsent, JNull, JDict(<<>>), JName("pie")}
        \cup {Chart(categories, JNum(<<"2", "2", "0", "0">>)) : categories \in CategoryLists}
        \cup {Chart(JList(<<Cat_BadValue, Cat_Food, Cat_Taxi>>), total) : total \in ChartTotals}

TotalAmounts == {JAbsent, JNum(<<"1", "0", "0">>), JStr(<<"N", "/", "A">>)}

ResponseDicts ==
    {JDict(Field("transactions", transactions) @@ Field("chart", chart)
           @@ Field("total_amount", total_amount)) :
        transactions \in TransactionLists, chart \in Charts, total_amount \in TotalAmounts}

\* the ways the completion wraps the JSON document
Plain(value) == <<TDoc(value)>>
Fenced(value) == <<TFence, TJson, TSpace, TDoc(value), TSpace, TFence>>
InProse(value) == <<TProse, TSpace, TBroken, TSpace, TDoc(value), TSpace, TProse>>

WrappedDicts ==
    {JDict(Field("transactions", transactions) @@ Field("chart", chart)) :
        transactions \in {JAbsent, JList(<<Tx_Metro, Tx_Pyaterochka>>)},
        chart \in {JAbsent, Chart(JList(<<Cat_Food>>), JNum(<<"2", "2", "0", "0">>))}}

ResponseTexts ==
    {Plain(value) : value \in ResponseDicts}
        \cup {Fenced(value) : value \in WrappedDicts}
        \cup {InProse(value) : value \in WrappedDicts}
        \cup {<<TProse>>, <<TProse, TBroken>>,
              Plain(JNum(<<"4", "2">>)), InProse(JNum(<<"4", "2">>)),
              Plain(JList(<<>>)), Fenced(JList(<<Tx_Metro, Tx_BadAmount>>)),
              Plain(Tx_Metro), Plain(Tx_BadAmount),
              Plain(Tx_Negative), Plain(Tx_ZeroAmount), Plain(Tx_Salary), Plain(Tx_Bonus),
              Plain(JDict("transactions" :> JList(<<Tx_Negative, Tx_ZeroAmount>>)))}

\* a mapping that user 1 has taught the learning store (three corrections out of three)
LearnedMapping ==
    [id |-> 1, user_id |-> 1, merchant_normalized |-> MerchantKey(D_Pyaterochka),
     learned_category |-> "Food", correction_count |-> 3, confidence |-> 95]
LearnedMappings == {{}, {LearnedMapping}}

\* OCRService(), OCRService(db, user_id), and the BACKOFF_BASE the tests set
Services ==
    {[db |-> db_user[1], user_id |-> db_user[2], BACKOFF_BASE |-> base] :
        db_user \in {<<FALSE, NoUserId>>, <<TRUE, 1>>}, base \in {BACKOFF_BASE, 10}}

(***************************************************************************)
(* The parsers applied to one response text.                               *)
(***************************************************************************)
ParseInit ==
    /\ tx_seq = 0 /\ corrections = <<>> /\ http_status = 0
    /\ service \in {svc \in Services : svc.BACKOFF_BASE = BACKOFF_BASE}
    /\ mappings \in {maps \in LearnedMappings : maps = {} \/ service.db}
    /\ req = [r \in Requests |-> IdleRequest]
    /\ parser \in {"parse_response", "parse_multiple_response"}
    /\ content \in ResponseTexts
    /\ attempt = 0 /\ last_error = NoError /\ calls = 0
    /\ attempt_errors = <<>> /\ sleeps = <<>>
    /\ outcome = Running
    /\ UploadIdle
    /\ ExcelIdle
    /\ NormIdle
    /\ WebIdle
    /\ CacheIdle

Outcome(result) ==
    IF IsError(result)
    THEN [kind |-> "raised", error |-> result]
    ELSE [kind |-> "returned", value |-> result]

\* result = parser(response_text)
ParseOnce ==
    /\ outcome = Running
    /\ outcome' = Outcome(Parse(service, mappings, parser, content))
    /\ UNCHANGED <<db_vars, req, service, parser, attempt, last_error, content, calls,
                   attempt_errors, sleeps, upload_vars, excel_vars, norm_vars, web_vars, cache_vars>>

SpecParse == ParseInit /\ [][ParseOnce]_vars

\* the chart of the response, as the JSON carries it
ResponseChart == Get(extract_json(content), "chart", JNull)
\* the response is a JSON object whose chart lists an entry with a valid value
CarriesValidChart ==
    /\ ~IsError(extract_json(content)) /\ IsDict(extract_json(content))
    /\ IsDict(ResponseChart)
    /\ IsList(Get(ResponseChart, "categories", JNull))
    /\ \E i \in DOMAIN ResponseChart.map["categories"].items :
            ResponseChart.map["categories"].items[i] \in {Cat_Food, Cat_Taxi}

\* C10: every result of _parse_multiple_response has chart = None or
\* transactions = []; when the response carries a chart with at least one valid
\* category entry, the result has the chart, no transactions, and total_amount
\* is the total of the chart.
C10_ChartDropsTransactions ==
    (parser = "parse_multiple_response" /\ outcome.kind = "returned") =>
        /\ (outcome.value.chart = NoRow \/ outcome.value.transactions = <<>>)
        /\ CarriesValidChart =>
            /\ outcome.value.chart # NoRow
            /\ outcome.value.transactions = <<>>
            /\ outcome.value.total_amount = outcome.value.chart.total
            /\ outcome.value.total_amount =
                    Decimal(PyStr(Get(ResponseChart, "total", JNum(<<"0">>))))

\* a response with a valid chart and two valid transactions was parsed
C10_Witness ==
    /\ parser = "parse_multiple_response" /\ outcome.kind = "returned"
    /\ CarriesValidChart
    /\ Get(extract_json(content), "transactions", JNull) = JList(<<Tx_Metro, Tx_Pyaterochka>>)
    /\ outcome.value.transactions = <<>>
    /\ outcome.value.chart # NoRow
    /\ outcome.value.total_amount.coef = 2200

(***************************************************************************)
(* _call_with_retry around the vision API.                                 *)
(***************************************************************************)
RetryTexts ==
    {Plain(JDict("transactions" :> JList(<<Tx_Metro, Tx_Pyaterochka>>))),
     Fenced(JDict(("transactions" :> JList(<<Tx_Metro>>))
                  @@ ("chart" :> Chart(JList(<<Cat_Food>>), JNum(<<"2", "2", "0", "0">>))))),
     Plain(Tx_Metro),
     Plain(Tx_BadAmount),
     <<TProse>>,
     Plain(JList(<<>>)),
     Plain(JDict("transactions" :> JName("none"))),
     Plain(JDict("transactions" :> JList(<<Tx_NanAmount>>))),
     Plain(JDict("transactions" :> JList(<<Tx_NotADict>>))),
     Plain(JDict(("transactions" :> JList(<<>>))
                 @@ ("chart" :> Chart(JList(<<Cat_Food>>), JStr(<<"N", "/", "A">>)))))}

\* what one invocation of _call_vision_api does: the client raises, or the
\* completion has the content (empty or a text)
ApiOutcomes ==
    {APITimeoutError, APIConnectionError, Raise("RuntimeError", "unexpected")}
        \cup {APIStatusError(status_code) : status_code \in {400, 401, 404, 429, 500, 503}}
        \cup {[content |-> text] : text \in RetryTexts \cup {<<>>}}

RetryInit ==
    /\ tx_seq = 0 /\ corrections = <<>> /\ http_status = 0
    /\ service \in Services
    /\ mappings \in {maps \in LearnedMappings : maps = {} \/ service.db}
    /\ req = [r \in Requests |-> IdleRequest]
    /\ parser \in {"parse_response", "parse_multiple_response"}
    /\ content = <<>>
    /\ attempt = 0 /\ last_error = NoError /\ calls = 0
    /\ attempt_errors = <<>> /\ sleeps = <<>>
    /\ outcome = Running
    /\ UploadIdle
    /\ ExcelIdle
    /\ NormIdle
    /\ WebIdle
    /\ CacheIdle

RetryNext == \E api \in ApiOutcomes : RetryAttempt(api)

SpecRetry == RetryInit /\ [][RetryNext]_vars

\* the failures that the retry policy is to retry: a timeout, a connection
\* failure, HTTP 5xx, HTTP 429, or a parse failure
RetriableFailure(e) ==
    \/ e.error \in {"APITimeoutError", "APIConnectionError", "ValueError"}
    \/ (e.error = "APIStatusError" /\ (e.status_code >= 500 \/ e.status_code = 429))
\* an HTTP 4xx status other than 429
NonRetriableStatus(e) ==
    e.error = "APIStatusError" /\ e.status_code \in 400..499 /\ e.status_code # 429
LastAttemptError == attempt_errors[Len(attempt_errors)]

\* C6: _call_with_retry invokes the vision call at most 3 times; a call that
\* returns after k - 1 failed attempts has made exactly k invocations, every
\* failure before it was retriable, and it returns the parser's result for the
\* response of attempt k; a retriable failure ends the call only on attempt 3.
C6_AtMostThreeCalls ==
    /\ calls <= 3
    /\ outcome.kind = "returned" =>
        /\ calls = Len(attempt_errors) + 1
        /\ \A i \in DOMAIN attempt_errors : RetriableFailure(attempt_errors[i])
        /\ outcome.value = Parse(service, mappings, parser, content)
    /\ (outcome.kind = "raised" /\ RetriableFailure(LastAttemptError)) =>
        Len(attempt_errors) = 3

\* a parse failure on attempt 1, then a success: 2 calls
C6_Witness ==
    /\ outcome.kind = "returned"
    /\ calls = 2
    /\ attempt_errors = <<Raise("ValueError", "No valid JSON found in AI response")>>
    /\ outcome.value.raw_text = content

\* C7: an attempt that fails with an HTTP 4xx status other than 429 is the last:
\* its error is raised, and no invocation and no wait follow it.
C7_NonRetriableRaisedAtOnce ==
    \A i \in DOMAIN attempt_errors :
        NonRetriableStatus(attempt_errors[i]) =>
            /\ i = Len(attempt_errors)
            /\ outcome = [kind |-> "raised", error |-> attempt_errors[i]]
            /\ calls = i
            /\ Len(sleeps) = i - 1

\* HTTP 400 on attempt 1: one call, no wait
C7_Witness ==
    /\ attempt_errors = <<APIStatusError(400)>>
    /\ calls = 1
    /\ sleeps = <<>>
    /\ outcome.kind = "raised"

\* C8: when all 3 attempts fail with retriable errors the call raises the error
\* of the third attempt itself.
C8_ExhaustionRaisesLastError ==
    (Len(attempt_errors) = 3 /\ \A i \in 1..3 : RetriableFailure(attempt_errors[i])) =>
        outcome = [kind |-> "raised", error |-> attempt_errors[3]]

\* three attempts failed with three different retriable errors
C8_Witness ==
    /\ Len(attempt_errors) = 3
    /\ \A i \in 1..3 : RetriableFailure(attempt_errors[i])
    /\ attempt_errors[1] # attempt_errors[3] /\ attempt_errors[2] # attempt_errors[3]
    /\ outcome.kind = "raised" /\ outcome.error = attempt_errors[3]
    /\ calls = 3

\* C9: the wait that follows failed attempt k is base * 2^(k-1): base, 2 * base
\* and 4 * base for a call whose three attempts all fail with retriable errors.
C9_BackoffAfterEveryFailure ==
    \A k \in DOMAIN attempt_errors :
        RetriableFailure(attempt_errors[k]) =>
            /\ k \in DOMAIN sleeps
            /\ sleeps[k] = service.BACKOFF_BASE * Pow2(k - 1)

(***************************************************************************)
(* A raw transaction without a usable amount, in a batch and alone.        *)
(***************************************************************************)
\* the text is a number: digits with at most one decimal point
IsNumeral(text) ==
    /\ \E i \in DOMAIN text : IsDigit(text[i])
    /\ \A i \in DOMAIN text : text[i] = "." \/ IsDigit(text[i])
    /\ Cardinality({i \in DOMAIN text : text[i] = "."}) <= 1

\* the raw transaction carries an amount that reads as a number
HasNumericAmount(tx_data) ==
    /\ "amount" \in DOMAIN tx_data.map
    /\ IsNumeral(AmountText(tx_data.map["amount"]))

\* the raw transactions of a response that is a JSON object without a chart
BatchItems(data) ==
    IF /\ ~IsError(data) /\ IsDict(data)
       /\ Get(data, "chart", JNull) = JNull
       /\ IsList(Get(data, "transactions", JNull))
    THEN data.map["transactions"].items
    ELSE <<>>

DescriptionsOf(txs) == [i \in DOMAIN txs |-> txs[i].description]
RawDescriptionsOf(items) == [i \in DOMAIN items |-> items[i].map["description"].chars]

\* C11: _parse_multiple_response drops the raw transactions whose amount is
\* missing or is not a number and returns every other transaction of the batch
\* in the original order; _parse_response raises when the amount of its one
\* transaction is missing or is not a number.
C11_BadAmountDroppedInBatchFatalAlone ==
    /\ ( /\ parser = "parse_multiple_response" /\ outcome # Running
         /\ BatchItems(extract_json(content)) # <<>>
         /\ \A i \in DOMAIN BatchItems(extract_json(content)) :
                IsDict(BatchItems(extract_json(content))[i]) ) =>
            /\ outcome.kind = "returned"
            /\ DescriptionsOf(outcome.value.transactions) =
                 RawDescriptionsOf(SelectSeq(BatchItems(extract_json(content)),
                                             HasNumericAmount))
    /\ ( /\ parser = "parse_response" /\ outcome # Running
         /\ ~IsError(extract_json(content)) /\ IsDict(extract_json(content))
         /\ "transactions" \notin DOMAIN extract_json(content).map
         /\ ~HasNumericAmount(extract_json(content)) ) =>
            outcome.kind = "raised"

(***************************************************************************)
(* Isolation of the learned state between users.                           *)
(***************************************************************************)
\* what a user can observe of the learning store: the mappings (without the
\* primary key), the tallies, and the results of the two lookups
OwnCorrections(rows, user_id) == SelectSeq(rows, LAMBDA row : row.user_id = user_id)
OwnMappings(maps, user_id) == {m \in maps : m.user_id = user_id}
MappingView(maps, user_id) == {[m EXCEPT !.id = 0] : m \in OwnMappings(maps, user_id)}
LearnedView(rows, maps, user_id) ==
    [mappings |-> MappingView(maps, user_id),
     tally |-> [m \in MerchantKeys, c \in Categories |->
                    <<CategoryCount(rows, user_id, m, c), TotalCount(rows, user_id, m)>>],
     learned |-> [d \in Descriptions |-> get_learned_category(maps, d, user_id)],
     applied |-> [d \in Descriptions, conf \in {0, 75, 95} |->
                    apply_learned_category(TRUE, maps, user_id, d, "Other", conf)]]

\* C12: a call that logs no correction for user B leaves everything B can
\* observe unchanged (B's mappings, B's tallies, the results of
\* get_learned_category and apply_learned_category for B); and a call that logs
\* a correction for a user leaves that user's mappings as the same call would
\* on a store that holds that user's rows only.
C12_LearnedStateIsolatedPerUser ==
    [][/\ \A b \in Users :
            (corrections' = corrections
                \/ corrections'[Len(corrections')].user_id # b) =>
                LearnedView(corrections', mappings', b) = LearnedView(corrections, mappings, b)
       /\ Len(corrections') = Len(corrections) + 1 =>
            LET row == corrections'[Len(corrections')]
                own_maps == OwnMappings(mappings, row.user_id)
            IN  MappingView(mappings', row.user_id) =
                    MappingView(
                        MappingsAfter(own_maps,
                            update_merchant_mapping(
                                OwnCorrections(corrections', row.user_id), own_maps,
                                row.merchant_normalized, row.corrected_category,
                                row.user_id)),
                        row.user_id)]_vars

\* user 1 has a mapping for a merchant for which user 2 has logged two
\* corrections to another category and has no mapping
C12_Witness ==
    \E m \in mappings :
        /\ m.user_id = 1
        /\ OwnMappings(mappings, 2) = {}
        /\ \E c \in Categories :
            /\ c # m.learned_category
            /\ CategoryCount(corrections, 2, m.merchant_normalized, c) = 2

(***************************************************************************)
(* The values of a promoted mapping: one user, one merchant, enough        *)
(* corrections for the majority to shift and for ratios that the column    *)
(* cannot hold exactly.                                                    *)
(***************************************************************************)
MaxPromoteTransactions == 10

PromoteCreates ==
    [description : {D_Pyaterochka},
     category : Categories,
     ai_category : Categories \cup {None}]

PromoteNext ==
    /\ tx_seq < MaxPromoteTransactions
    /\ \E data \in PromoteCreates : create_transaction(1, data)
    /\ UNCHANGED <<ocr_vars, upload_vars, excel_vars, norm_vars, web_vars, cache_vars>>

SpecPromote == LearnInit /\ [][PromoteNext]_vars

\* the step appended a correction whose category meets the promotion threshold;
\* the pair's mapping is then one row with the corrected category, the tally of
\* the category, and the confidence: exactly min(0.95, chosen/total) (exact), or
\* that ratio as a number of two decimal places holds it
PromotedValues(exact) ==
    Len(corrections') = Len(corrections) + 1 =>
        LET row == corrections'[Len(corrections')]
            u == row.user_id
            m == row.merchant_normalized
            chosen == Cardinality(RowsChoosing(corrections', u, m, row.corrected_category))
            total == Cardinality(RowsFor(corrections', u, m))
        IN  (chosen >= 3 /\ 10 * chosen >= 7 * total) =>
                \E mp \in mappings' :
                    /\ MappingsOf(mappings', u, m) = {mp}
                    /\ mp.learned_category = row.corrected_category
                    /\ mp.correction_count = chosen
                    /\ IF 100 * chosen >= 95 * total
                       THEN mp.confidence = 95
                       ELSE IF exact
                       THEN mp.confidence * total = 100 * chosen
                       ELSE /\ 2 * (mp.confidence * total - 100 * chosen) <= total
                            /\ 2 * (100 * chosen - mp.confidence * total) <= total

\* C13 as stated: after a promotion the mapping has the corrected category,
\* correction_count = category_count and confidence = min(0.95,
\* category_count / total_count), for a new and for an existing mapping.
C13_PromotedConfidenceExact == [][PromotedValues(TRUE)]_vars

\* C13 as the code has it: the same, with the confidence being
\* min(0.95, category_count / total_count) rounded to two decimal places, the
\* precision of the confidence column.
C13_PromotedConfidenceTwoPlaces == [][PromotedValues(FALSE)]_vars

\* a mapping learned as Food by 3 of 3 was later updated to Other by 7 of 10
C13_Witness ==
    /\ Len(corrections) = 10
    /\ \A i \in 1..3 : corrections[i].corrected_category = "Food"
    /\ \E mp \in mappings :
        /\ mappings = {mp}
        /\ mp.learned_category = "Other"
        /\ mp.correction_count = 7
        /\ mp.confidence = 70

(***************************************************************************)
(* routers/upload.py: POST /api/upload/batch.  An uploaded file is its     *)
(* name (None when the part has none), its declared content type, the      *)
(* signature its bytes start with, and its length.                         *)
(***************************************************************************)
max_upload_size == 10485760
MAX_BATCH_FILES == 10

HTTPException(status_code, detail) ==
    [error |-> "HTTPException", status_code |-> status_code, msg |-> detail]

\* Path(filename).suffix.lower() for the names of the model
Suffix(filename) ==
    CASE filename = "shot.png" -> ".png"
      [] filename = "Photo.JPG" -> ".jpg"
      [] filename = "statement.xlsx" -> ".xlsx"
      [] filename = "old.xls" -> ".xls"
      [] OTHER -> ""

EXCEL_CONTENT_TYPES ==
    {"application/vnd.openxmlformats-officedocument.spreadsheetml.sheet",
     "application/vnd.ms-excel"}
EXCEL_EXTENSIONS == {".xlsx", ".xls"}

\* _detect_image_type: the type name, or None
detect_image_type(data) ==
    CASE data.signature \in {"jpeg", "png"} -> data.signature
      [] data.signature \in {"GIF87a", "GIF89a"} -> "gif"
      [] data.signature = "RIFF" -> IF data.webp THEN "webp" ELSE None
      [] OTHER -> None

\* _detect_file_type: 'image' or 'excel', or the HTTPException raised
detect_file_type(data, content_type, filename) ==
    IF \/ (IF Falsy(filename) THEN "" ELSE Suffix(filename)) \in EXCEL_EXTENSIONS
       \/ content_type \in EXCEL_CONTENT_TYPES
    THEN IF data.signature \in {"PK", "OLE2"}
         THEN [file_type |-> "excel"]
         ELSE HTTPException(400, "File has Excel extension but invalid content")
    ELSE IF detect_image_type(data) # None
    THEN [file_type |-> "image"]
    ELSE HTTPException(400, "Unsupported file type")

\* _read_and_validate: (content, file_type), or the HTTPException raised
read_and_validate(file) ==
    IF file.content.length > max_upload_size
    THEN HTTPException(400, "File too large")
    ELSE detect_file_type(file.content, file.content_type, file.filename)

\* file.filename or "unknown"
ResultFilename(file) == IF Falsy(file.filename) THEN "unknown" ELSE file.filename

\* a variant of the except clause of the loop that catches HTTPException only
BatchCaught_OnlyHTTPException(exc) == exc.error = "HTTPException"

\* except Exception: every exception class of the model derives from Exception
BatchCaught(exc) ==
    exc.error \in {"HTTPException", "OSError", "ValueError", "ValidationError",
                   "APIStatusError", "APITimeoutError", "APIConnectionError",
                   "InvalidOperation", "TypeError", "AttributeError", "KeyError",
                   "BadZipFile"}

\* lines 183-192: the exception of the try block, or the success entry; saved is
\* what _save_file did, parsed what _parse_file and ParsedTransactions(**parsed) did
TryFile(file, validated, saved, parsed) ==
    IF IsError(validated) THEN [exc |-> validated, file_path |-> FALSE]
    ELSE IF IsError(saved) THEN [exc |-> saved, file_path |-> FALSE]
    ELSE IF IsError(parsed) THEN [exc |-> parsed, file_path |-> TRUE]
    ELSE [exc |-> NoError, file_path |-> TRUE]

\* one iteration of the loop for what the try block gave
BatchIteration(file, path, tried) ==
    IF tried.exc = NoError
    THEN /\ batch_results' = Append(batch_results,
                [filename |-> ResultFilename(file), status |-> "success"])
         /\ successful' = successful + 1
         /\ stored' = stored \cup {path}
         /\ UNCHANGED <<failed, response>>
    ELSE IF BatchCaught(tried.exc)
    THEN /\ batch_results' = Append(batch_results,
                [filename |-> ResultFilename(file), status |-> "error"])
         /\ failed' = failed + 1
         /\ UNCHANGED <<successful, stored, response>>
    ELSE /\ response' = HTTPException(500, "Internal Server Error")
         /\ stored' = IF tried.file_path THEN stored \cup {path} ELSE stored
         /\ UNCHANGED <<batch_results, successful, failed>>

\* what the disk and the parsing service can do to one file
SaveOutcomes == {[saved |-> TRUE], Raise("OSError", "No space left on device")}
ParseOutcomes ==
    {[parsed |-> TRUE],
     Raise("ValueError", "No valid JSON found in AI response"),
     Raise("APIStatusError", "401"),
     Raise("BadZipFile", "File is not a zip file"),
     Raise("ValidationError", "ParsedTransactions")}

\* line 173: more than 10 files
BatchReject ==
    /\ response = NoResponse
    /\ Len(files) > MAX_BATCH_FILES
    /\ response' = HTTPException(400, "Maximum 10 files per batch")
    /\ UNCHANGED <<files, batch_results, successful, failed, stored,
                   db_vars, req, ocr_vars, excel_vars, norm_vars, web_vars, cache_vars>>

\* lines 180-203: the loop body for the next file
BatchFile ==
    /\ response = NoResponse
    /\ Len(files) <= MAX_BATCH_FILES
    /\ Len(batch_results) < Len(files)
    /\ \E saved \in SaveOutcomes, parsed \in ParseOutcomes :
        BatchIteration(files[Len(batch_results) + 1], Len(batch_results) + 1,
                       TryFile(files[Len(batch_results) + 1],
                               read_and_validate(files[Len(batch_results) + 1]),
                               saved, parsed))
    /\ UNCHANGED <<files, db_vars, req, ocr_vars, excel_vars, norm_vars, web_vars, cache_vars>>

\* lines 205-210
BatchReturn ==
    /\ response = NoResponse
    /\ Len(files) <= MAX_BATCH_FILES
    /\ Len(batch_results) = Len(files)
    /\ response' = [results |-> batch_results,
                    total_files |-> Len(files),
                    successful |-> successful,
                    failed |-> failed]
    /\ UNCHANGED <<files, batch_results, successful, failed, stored,
                   db_vars, req, ocr_vars, excel_vars, norm_vars, web_vars, cache_vars>>

MaxBatchLen == 3

Png == [filename |-> "shot.png", content_type |-> "image/png",
        content |-> [signature |-> "png", webp |-> FALSE, length |-> 2048]]
UploadFiles ==
    {Png,
     [Png EXCEPT !.content.length = max_upload_size + 1],
     [filename |-> None, content_type |-> "image/jpeg",
      content |-> [signature |-> "jpeg", webp |-> FALSE, length |-> 2048]],
     [filename |-> "statement.xlsx", content_type |-> "application/octet-stream",
      content |-> [signature |-> "PK", webp |-> FALSE, length |-> 4096]],
     [filename |-> "statement.xlsx", content_type |-> "application/vnd.ms-excel",
      content |-> [signature |-> "png", webp |-> FALSE, length |-> 4096]],
     [filename |-> "notes.txt", content_type |-> "text/plain",
      content |-> [signature |-> "text", webp |-> FALSE, length |-> 10]],
     [filename |-> "Photo.JPG", content_type |-> "image/webp",
      content |-> [signature |-> "RIFF", webp |-> FALSE, length |-> 2048]]}

\* batches of up to MaxBatchLen files, and batches of 10 and of 11 files
Batches ==
    UNION {[1..n -> UploadFiles] : n \in 0..MaxBatchLen}
        \cup {[i \in 1..n |-> IF i % 3 = 0 THEN [Png EXCEPT !.content.signature = "text"]
                              ELSE Png] :
                n \in {MAX_BATCH_FILES, MAX_BATCH_FILES + 1}}

UploadInit ==
    /\ DbInit
    /\ req = [r \in Requests |-> IdleRequest]
    /\ OcrIdle
    /\ ExcelIdle
    /\ NormIdle
    /\ WebIdle
    /\ CacheIdle
    /\ files \in Batches
    /\ batch_results = <<>>
    /\ successful = 0
    /\ failed = 0
    /\ stored = {}
    /\ response = NoResponse

UploadNext == BatchReject \/ BatchFile \/ BatchReturn

SpecUpload == UploadInit /\ [][UploadNext]_vars

EntriesWith(status) == {i \in DOMAIN batch_results : batch_results[i].status = status}

\* C14: in a batch of n <= 10 files the handler never fails; file i of the batch
\* gets entry i, with its name and status success or error; the counters count
\* the entries; the loop goes on after every entry until each file has one; and
\* the answer lists the n entries with successful + failed = total_files = n.
C14_EveryFileOneResult ==
    Len(files) <= MAX_BATCH_FILES =>
        /\ ~IsError(response)
        /\ Len(batch_results) <= Len(files)
        /\ \A i \in DOMAIN batch_results :
            /\ batch_results[i].filename = ResultFilename(files[i])
            /\ batch_results[i].status \in {"success", "error"}
        /\ successful = Cardinality(EntriesWith("success"))
        /\ failed = Cardinality(EntriesWith("error"))
        /\ (response = NoResponse /\ Len(batch_results) < Len(files)) => ENABLED BatchFile
        /\ response # NoResponse =>
            /\ response.results = batch_results
            /\ Len(response.results) = Len(files)
            /\ response.total_files = Len(files)
            /\ response.successful + response.failed = response.total_files

\* a batch whose first file failed and whose later files succeeded was answered
C14_Witness ==
    /\ response # NoResponse /\ ~IsError(response)
    /\ Len(files) = 3
    /\ response.results[1].status = "error"
    /\ response.results[2].status = "success"
    /\ response.results[3].status = "success"
    /\ response.failed = 1 /\ response.successful = 2

(***************************************************************************)
(* services/excel_service.py: the merchant-category-code table and         *)
(* _extract_merchant_and_mcc.  A code is its four digits; no code is the   *)
(* empty sequence.  The descriptions of the model have no line break.      *)
(***************************************************************************)
MCC_FOOD ==
    {<<"5","4","1","1">>, <<"5","4","1","2">>, <<"5","4","2","2">>, <<"5","4","4","1">>,
     <<"5","4","5","1">>, <<"5","4","6","2">>, <<"5","4","9","9">>, <<"5","8","1","2">>,
     <<"5","8","1","3">>, <<"5","8","1","4">>}
MCC_TRANSPORT ==
    {<<"4","0","1","1">>, <<"4","1","1","1">>, <<"4","1","1","2">>, <<"4","1","2","1">>,
     <<"4","1","3","1">>, <<"4","2","1","4">>, <<"4","4","1","1">>, <<"4","4","5","7">>,
     <<"4","4","6","8">>, <<"4","5","1","1">>, <<"4","7","8","4">>, <<"4","7","8","9">>,
     <<"5","0","1","3">>, <<"5","1","7","2">>, <<"5","5","1","1">>, <<"5","5","2","1">>,
     <<"5","5","3","1">>, <<"5","5","3","2">>, <<"5","5","3","3">>, <<"5","5","4","1">>,
     <<"5","5","4","2">>, <<"5","5","5","1">>, <<"5","5","7","1">>, <<"5","5","9","2">>,
     <<"5","5","9","8">>, <<"5","5","9","9">>, <<"7","5","1","1">>, <<"7","5","1","2">>,
     <<"7","5","1","3">>, <<"7","5","1","9">>, <<"7","5","2","3">>}
MCC_ENTERTAINMENT ==
    {<<"7","8","3","2">>, <<"7","8","2","9">>, <<"7","8","4","1">>, <<"7","9","1","1">>,
     <<"7","9","2","2">>, <<"7","9","2","9">>, <<"7","9","3","2">>, <<"7","9","3","3">>,
     <<"7","9","4","1">>, <<"7","9","9","1">>, <<"7","9","9","3">>, <<"7","9","9","4">>,
     <<"7","9","9","5">>, <<"7","9","9","6">>, <<"7","9","9","7">>, <<"7","9","9","8">>,
     <<"7","9","9","9">>, <<"5","8","1","5">>, <<"5","8","1","6">>, <<"5","8","1","7">>,
     <<"5","8","1","8">>}
MCC_HEALTH ==
    {<<"5","9","1","2">>, <<"5","9","7","5">>, <<"5","9","7","6">>, <<"8","0","1","1">>,
     <<"8","0","2","1">>, <<"8","0","3","1">>, <<"8","0","4","1">>, <<"8","0","4","2">>,
     <<"8","0","4","3">>, <<"8","0","4","9">>, <<"8","0","5","0">>, <<"8","0","6","2">>,
     <<"8","0","7","1">>, <<"8","0","9","9">>}
MCC_BILLS ==
    {<<"4","8","1","2">>, <<"4","8","1","3">>, <<"4","8","1","4">>, <<"4","8","1","5">>,
     <<"4","8","1","6">>, <<"4","8","2","1">>, <<"4","8","9","9">>, <<"4","9","0","0">>,
     <<"6","3","0","0">>, <<"6","3","8","1">>}
MCC_SHOPPING ==
    {<<"5","1","1","1">>, <<"5","1","3","1">>, <<"5","1","3","7">>, <<"5","1","3","9">>,
     <<"5","1","6","9">>, <<"5","1","9","2">>, <<"5","1","9","3">>, <<"5","1","9","4">>,
     <<"5","1","9","9">>, <<"5","2","0","0">>, <<"5","2","1","1">>, <<"5","2","3","1">>,
     <<"5","2","5","1">>, <<"5","2","6","1">>, <<"5","2","7","1">>, <<"5","3","0","0">>,
     <<"5","3","0","9">>, <<"5","3","1","0">>, <<"5","3","1","1">>, <<"5","3","3","1">>,
     <<"5","3","9","9">>, <<"5","6","1","1">>, <<"5","6","2","1">>, <<"5","6","3","1">>,
     <<"5","6","4","1">>, <<"5","6","5","1">>, <<"5","6","5","5">>, <<"5","6","6","1">>,
     <<"5","6","8","1">>, <<"5","6","9","1">>, <<"5","6","9","9">>, <<"5","7","1","2">>,
     <<"5","7","1","3">>, <<"5","7","1","4">>, <<"5","7","1","8">>, <<"5","7","1","9">>,
     <<"5","7","2","2">>, <<"5","7","3","2">>, <<"5","7","3","3">>, <<"5","7","3","4">>,
     <<"5","7","3","5">>, <<"5","8","1","1">>, <<"5","9","2","1">>, <<"5","9","3","1">>,
     <<"5","9","3","2">>, <<"5","9","3","3">>, <<"5","9","3","5">>, <<"5","9","3","7">>,
     <<"5","9","4","0">>, <<"5","9","4","1">>, <<"5","9","4","2">>, <<"5","9","4","3">>,
     <<"5","9","4","4">>, <<"5","9","4","5">>, <<"5","9","4","6">>, <<"5","9","4","7">>,
     <<"5","9","4","8">>, <<"5","9","4","9">>, <<"5","9","5","0">>, <<"5","9","6","0">>,
     <<"5","9","6","4">>, <<"5","9","6","5">>, <<"5","9","6","6">>, <<"5","9","6","7">>,
     <<"5","9","6","8">>, <<"5","9","6","9">>, <<"5","9","7","0">>, <<"5","9","7","1">>,
     <<"5","9","7","2">>, <<"5","9","7","3">>, <<"5","9","7","7">>, <<"5","9","7","8">>,
     <<"5","9","8","3">>, <<"5","9","9","2">>, <<"5","9","9","3">>, <<"5","9","9","4">>,
     <<"5","9","9","5">>, <<"5","9","9","6">>, <<"5","9","9","7">>, <<"5","9","9","8">>,
     <<"5","9","9","9">>}

\* _MCC_CATEGORIES.get(mcc): the category, or None
MCC_CATEGORIES(mcc) ==
    CASE mcc \in MCC_FOOD -> "Food"
      [] mcc \in MCC_TRANSPORT -> "Transport"
      [] mcc \in MCC_ENTERTAINMENT -> "Entertainment"
      [] mcc \in MCC_HEALTH -> "Health"
      [] mcc \in MCC_BILLS -> "Bills"
      [] mcc \in MCC_SHOPPING -> "Shopping"
      [] OTHER -> None

\* the least element of a non-empty set of positions
FirstOf(positions) == CHOOSE i \in positions : \A j \in positions : i <= j

MCC_TAG == <<"M", "C", "C", ":">>
\* re.search(r'MCC:\s*(\d{4})', description): where the four digits start
MccDigitsAt(text, i) == i + Len(MCC_TAG) + SpaceRun(text, i + Len(MCC_TAG))
MccMatches(text) ==
    {i \in DOMAIN text : StartsAt(text, i, MCC_TAG) /\ AllDigits(text, MccDigitsAt(text, i), 4)}
ExtractMcc(text) ==
    IF MccMatches(text) = {} THEN <<>>
    ELSE SubSeq(text, MccDigitsAt(text, FirstOf(MccMatches(text))),
                MccDigitsAt(text, FirstOf(MccMatches(text))) + 3)

PLACE_TAG ==
    <<"~m","~e","~s","~t","~o"," ","~s","~o","~v","~e","~r","~sh","~e","~n","~i","~ya"," ",
      "~o","~p","~e","~r","~a","~c","~i","~i",":">>
SERVICE_TAGS ==
    {<<"~O","~p","~l","~a","~t","~a"," ","~u","~s","~l","~u","~g",":">>,
     <<"~P","~e","~r","~e","~v","~o","~d",":">>,
     <<"~P","~l","~a","~t","~yo","~zh",":">>,
     <<"~P","~l","~a","~t","~e","~zh",":">>}
MERCHANT_CLEAN_MAX == 80

IsAsciiLetter(c) ==
    c \in Range(SubSeq(UpperLetters, 1, 26)) \cup Range(SubSeq(LowerLetters, 1, 26))

\* (?:[A-Z]{2}/[^/]+/)? at position a: the position after it; a when the group
\* does not match there or nothing follows it
AfterCountryCity(text, a) ==
    IF /\ a + 3 <= Len(text)
       /\ IsAsciiLetter(text[a]) /\ IsAsciiLetter(text[a + 1]) /\ text[a + 2] = "/"
       /\ text[a + 3] # "/"
       /\ \E q \in (a + 4)..(Len(text) - 1) : text[q] = "/"
    THEN 1 + FirstOf({q \in (a + 4)..(Len(text) - 1) : text[q] = "/"})
    ELSE a

\* ,\s*MCC: at position i, ignoring case
CommaMccAt(text, i) ==
    /\ CharAt(text, i) = ","
    /\ StartsAt(Lower(text), i + 1 + SpaceRun(text, i + 1), Lower(MCC_TAG))

\* (.+?)(?:,\s*MCC:|$) from position b: the last position of the group
PlaceGroupEnd(text, b) ==
    FirstOf({e \in b..Len(text) : e = Len(text) \/ CommaMccAt(text, e + 1)})
\* (.+?)(?:,|$) from position b
ServiceGroupEnd(text, b) ==
    FirstOf({e \in b..Len(text) : e = Len(text) \/ text[e + 1] = ","})

\* where the group of the place pattern starts for a tag at p
PlaceGroupStart(text, p) == p + Len(PLACE_TAG) + SpaceRun(text, p + Len(PLACE_TAG))
PlaceMatches(text) ==
    {p \in DOMAIN text :
        StartsAt(Lower(text), p, PLACE_TAG) /\ PlaceGroupStart(text, p) <= Len(text)}

\* re.sub(r'[._]+', ' ', merchant).strip()
DotsToSpace(merchant) ==
    Strip(ReSub(merchant, [i \in DOMAIN merchant |-> RunLen(merchant, i, {".", "_"})], <<" ">>))

\* lines 108-116: the merchant of the place pattern (empty: none)
PlaceMerchantFrom(text, b) == DotsToSpace(Strip(SubSeq(text, b, PlaceGroupEnd(text, b))))
PlaceMerchant(text) ==
    IF PlaceMatches(text) = {} THEN <<>>
    ELSE PlaceMerchantFrom(text,
            AfterCountryCity(text, PlaceGroupStart(text, FirstOf(PlaceMatches(text)))))

ServiceGroupStart(text, p, tag) == p + Len(tag) + SpaceRun(text, p + Len(tag))
ServiceMatches(text) ==
    {p \in DOMAIN text :
        \E tag \in SERVICE_TAGS :
            StartsAt(text, p, tag) /\ ServiceGroupStart(text, p, tag) <= Len(text)}
ServiceMerchantFrom(text, b) == Strip(SubSeq(text, b, ServiceGroupEnd(text, b)))
\* lines 121-123: the group of the service pattern at its leftmost match
ServiceMerchant(text) ==
    ServiceMerchantFrom(text,
        ServiceGroupStart(text, FirstOf(ServiceMatches(text)),
            CHOOSE tag \in SERVICE_TAGS : StartsAt(text, FirstOf(ServiceMatches(text)), tag)))

\* lines 107-129 for the merchant that the place pattern gave
MerchantOr(place_merchant, description) ==
    IF place_merchant # <<>> THEN place_merchant
    ELSE IF ServiceMatches(description) # {} THEN ServiceMerchant(description)
    ELSE Truncate(Strip(description), MERCHANT_CLEAN_MAX)

\* _extract_merchant_and_mcc
extract_merchant_and_mcc(description) ==
    [merchant |-> MerchantOr(PlaceMerchant(description), description),
     mcc |-> ExtractMcc(description)]


(***************************************************************************)
(* ExcelParsingService._categorize_descriptions.  Step 1 runs over         *)
(* list(set(descriptions)), whose order is arbitrary; step 2 makes one AI   *)
(* call per batch of batch_size entries of needs_ai.  Every call is logged  *)
(* in ai_calls with the entries its prompt numbers and what came back.      *)
(***************************************************************************)
VALID_INCOME_CATEGORIES == {"Salary", "Transfer", "Cashback", "Investment", "OtherIncome"}
batch_size == 40

DefaultCategory(income) == IF income THEN "OtherIncome" ELSE "Other"
PromptTemplate(income) == IF income THEN "CATEGORIZE_INCOME_PROMPT" ELSE "CATEGORIZE_PROMPT"

\* str(cat) where the code compares it with category names
StrName(cat) == IF "name" \in DOMAIN cat THEN cat.name ELSE "not a category name"

\* the inner function normalize
NormalizeFor(income, cat) ==
    IF income
    THEN (IF cat \in VALID_INCOME_CATEGORIES THEN cat ELSE DefaultCategory(income))
    ELSE normalize_category(JName(cat))

\* line 358: whether step 1 takes the category of a description from the table
MccShortCircuit_AlsoIncome(income, extracted) ==
    extracted.mcc # <<>> /\ MCC_CATEGORIES(extracted.mcc) # None
MccShortCircuit(income, extracted) ==
    ~income /\ extracted.mcc # <<>> /\ MCC_CATEGORIES(extracted.mcc) # None

\* lines 356-361 over the descriptions in the order of the list unique
RECURSIVE PreCategorized(_, _)
PreCategorized(unique, income) ==
    IF unique = <<>> THEN [result |-> <<>>, needs_ai |-> <<>>]
    ELSE LET rest == PreCategorized(SubSeq(unique, 1, Len(unique) - 1), income)
             desc == unique[Len(unique)]
             extracted == extract_merchant_and_mcc(desc)
         IN  IF MccShortCircuit(income, extracted)
             THEN [result |-> (desc :> MCC_CATEGORIES(extracted.mcc)) @@ rest.result,
                   needs_ai |-> rest.needs_ai]
             ELSE [result |-> rest.result,
                   needs_ai |-> Append(rest.needs_ai, [desc |-> desc, merchant |-> extracted.merchant])]

\* lines 377-381: the category of entry j of the batch for the dict data
EntryCategory(data, j, income) ==
    IF Truthy(Get(data, ToString(j), JAbsent))
    THEN NormalizeFor(income, StrName(Get(data, ToString(j), JAbsent)))
    ELSE DefaultCategory(income)

\* lines 375-384: what the try block assigns for the decoded data
BatchCategories(batch, data, income) ==
    [desc \in {batch[j].desc : j \in DOMAIN batch} |->
        IF IsDict(data)
        THEN EntryCategory(data, CHOOSE j \in DOMAIN batch : batch[j].desc = desc, income)
        ELSE DefaultCategory(income)]

\* lines 385-388: the handler gives every entry of the batch the default
BatchDefaults(batch, income) ==
    [desc \in {batch[j].desc : j \in DOMAIN batch} |-> DefaultCategory(income)]

\* _call_ai: the content of the completion (as the field text), or the exception
call_ai(api) ==
    IF IsError(api) THEN api
    ELSE IF api.content = <<>> THEN Raise("ValueError", "AI returned empty response")
    ELSE [text |-> api.content]

\* line 385, except Exception: the exceptions the handler of the batch catches
CategorizeCaught_OnlyValueError(exc) == exc.error = "ValueError"
CategorizeCaught(exc) ==
    exc.error \in {"ValueError", "TypeError", "KeyError", "APITimeoutError",
                   "APIConnectionError", "APIStatusError", "RateLimitError"}

\* lines 372-388 for what _extract_json gave (data) or what was raised before it:
\* the categories assigned to the batch, or the exception that leaves the loop
BatchOutcome(batch, data, income) ==
    IF IsError(data)
    THEN (IF CategorizeCaught(data) THEN [assigned |-> BatchDefaults(batch, income)] ELSE data)
    ELSE [assigned |-> BatchCategories(batch, data, income)]

\* lines 373-374: _extract_json(self._call_ai(prompt)), or the exception
DecodedReply(response_text) ==
    IF IsError(response_text) THEN response_text ELSE extract_json(response_text.text)

\* needs_ai[i:i + batch_size]
BatchAt(entries, i) == SubSeq(entries, i + 1, Min(i + batch_size, Len(entries)))

\* the orders in which list(set(descriptions)) may come: the order of first
\* occurrence, its reverse, and its rotation by one
RECURSIVE FirstSeen(_)
FirstSeen(descs) ==
    IF descs = <<>> THEN <<>>
    ELSE LET before == FirstSeen(SubSeq(descs, 1, Len(descs) - 1))
         IN  IF descs[Len(descs)] \in Range(before) THEN before
             ELSE Append(before, descs[Len(descs)])
Reversed(items) == [i \in DOMAIN items |-> items[Len(items) + 1 - i]]
Rotated(items) == IF items = <<>> THEN <<>> ELSE Append(Tail(items), Head(items))
SetOrders(descs) ==
    {FirstSeen(descs), Reversed(FirstSeen(descs)), Rotated(FirstSeen(descs))}

\* the descriptions of the raw transactions of one type (lines 540-541)
DescriptionsOfType(txs, type) ==
    LET chosen == SelectSeq(txs, LAMBDA tx : tx.type = type)
    IN  [i \in DOMAIN chosen |-> chosen[i].description]

\* return of _categorize_descriptions with the dict value: to the caller of
\* the model, or to line 542 or line 543 of parse_excel_bytes
CategorizeReturns(value) ==
    /\ category_map' = value
    /\ IF categorize_caller = "direct"
       THEN /\ excel_pc' = "done"
            /\ excel_outcome' = [kind |-> "returned", value |-> value]
            /\ UNCHANGED <<descriptions, is_income, categorize_caller, expense_cat_map>>
       ELSE IF categorize_caller = "expenses"
       THEN /\ expense_cat_map' = value
            /\ descriptions' = DescriptionsOfType(raw_transactions, "income")
            /\ is_income' = TRUE
            /\ categorize_caller' = "income"
            /\ excel_pc' = "categorize"
            /\ UNCHANGED excel_outcome
       ELSE /\ excel_pc' = "build"
            /\ UNCHANGED <<descriptions, is_income, categorize_caller, expense_cat_map,
                           excel_outcome>>

\* lines 340-363: the early return, or step 1
PreCategorizeWith(pre) ==
    /\ category_map' = pre.result
    /\ needs_ai' = pre.needs_ai
    /\ batch_start' = 0
    /\ excel_pc' = "batches"
    /\ UNCHANGED <<excel_outcome, descriptions, is_income, categorize_caller,
                   expense_cat_map>>
PreCategorize ==
    /\ excel_pc = "categorize"
    /\ IF descriptions = <<>>
       THEN /\ CategorizeReturns(<<>>)
            /\ UNCHANGED <<needs_ai, batch_start>>
       ELSE \E unique \in SetOrders(descriptions) :
                PreCategorizeWith(PreCategorized(unique, is_income))
    /\ UNCHANGED <<workbook, col_mapping, ai_calls, raw_transactions,
                   db_vars, req, ocr_vars, upload_vars, norm_vars, web_vars, cache_vars>>

\* the keys "1".."n" of a response for a batch of n entries
Keys(n) == {ToString(j) : j \in 1..n}
\* what the completion may be for a batch of n entries
Replies(n) ==
    {Raise("APIConnectionError", "Connection error."),
     Raise("APITimeoutError", "Request timed out."),
     [content |-> <<>>],
     [content |-> <<TProse>>],
     [content |-> Plain(JList(<<JName("Food")>>))],
     [content |-> Plain(JDict([k \in Keys(n) |-> JName("Food")]))],
     [content |-> Plain(JDict([k \in Keys(n) |-> JName("Salary")]))],
     [content |-> Fenced(JDict([k \in {ToString(j) : j \in {i \in 1..n : i % 2 = 1}} |->
                                    JName("Transport")]))],
     [content |-> InProse(JDict(("1" :> JName("Pizza")) @@ ("2" :> JNull)
                                 @@ ("3" :> JNum(<<"5">>)) @@ ("4" :> JName(""))))]}

\* lines 367-388: one pass of the loop of step 2
CategorizeBatchWith(batch, api, decided) ==
    /\ ai_calls' = Append(ai_calls, [kind |-> "categorize",
                                     template |-> PromptTemplate(is_income),
                                     entries |-> batch,
                                     reply |-> api])
    /\ IF IsError(decided)
       THEN /\ excel_pc' = "done"
            /\ excel_outcome' = [kind |-> "raised", error |-> decided]
            /\ UNCHANGED <<category_map, batch_start>>
       ELSE /\ category_map' = decided.assigned @@ category_map
            /\ batch_start' = batch_start + batch_size
            /\ UNCHANGED <<excel_pc, excel_outcome>>
CategorizeBatch ==
    /\ excel_pc = "batches"
    /\ batch_start < Len(needs_ai)
    /\ \E api \in Replies(Len(BatchAt(needs_ai, batch_start))) :
           CategorizeBatchWith(BatchAt(needs_ai, batch_start), api,
               BatchOutcome(BatchAt(needs_ai, batch_start), DecodedReply(call_ai(api)), is_income))
    /\ UNCHANGED <<workbook, col_mapping, descriptions, is_income, needs_ai,
                   categorize_caller, raw_transactions, expense_cat_map,
                   db_vars, req, ocr_vars, upload_vars, norm_vars, web_vars, cache_vars>>

\* line 390: return result
CategorizeReturn ==
    /\ excel_pc = "batches"
    /\ batch_start >= Len(needs_ai)
    /\ CategorizeReturns(category_map)
    /\ UNCHANGED <<workbook, col_mapping, ai_calls, needs_ai, batch_start,
                   raw_transactions, db_vars, req, ocr_vars, upload_vars, norm_vars, web_vars, cache_vars>>

MaxDescriptions == 41

D_PlaceFood ==
    PLACE_TAG \o <<" ","R","U","/","M","O","S","C","O","W","/","P","Y","A","T","E","R","O","C","H","K","A","_","1",
                   ",", " ", "M","C","C",":"," ","5","4","1","1">>
D_PlaceTaxi ==
    PLACE_TAG \o <<" ","R","U","/","S","P","B","/","Y","A","N","D","E","X",".","T","A","X","I",
                   ",", "M","C","C",":","4","1","2","1">>
\* a code that the table does not carry
D_PlaceUnknown ==
    PLACE_TAG \o <<" ","R","U","/","S","P","B","/","K","I","O","S","K",
                   ",", " ", "M","C","C",":"," ","9","9","9","9">>
D_Transfer == <<"~P","~e","~r","~e","~v","~o","~d",":"," ","I","v","a","n"," ","I",".",","," ","5","0","0">>
ShopDescription(n) ==
    <<"S", "h", "o", "p", " ", DigitChars[(n \div 10) + 1], DigitChars[(n % 10) + 1]>>
Shops(n) == [i \in 1..n |-> ShopDescription(9 + i)]

DescriptionLists ==
    {<<>>,
     <<D_PlaceFood, D_PlaceTaxi, D_PlaceFood>>,
     <<D_PlaceFood, D_Transfer, D_PlaceUnknown, D_Transfer>>,
     <<ShopDescription(10), D_PlaceTaxi, ShopDescription(11), D_Transfer, D_PlaceUnknown>>,
     Shops(MaxDescriptions) \o <<D_PlaceFood>>}

CategorizeInit ==
    /\ DbInit
    /\ req = [r \in Requests |-> IdleRequest]
    /\ OcrIdle
    /\ UploadIdle
    /\ NormIdle
    /\ WebIdle
    /\ CacheIdle
    /\ workbook = <<>>
    /\ col_mapping = NoRow
    /\ excel_pc = "categorize"
    /\ excel_outcome = Running
    /\ ai_calls = <<>>
    /\ descriptions \in DescriptionLists
    /\ is_income \in BOOLEAN
    /\ category_map = <<>>
    /\ needs_ai = <<>>
    /\ batch_start = 0
    /\ categorize_caller = "direct"
    /\ raw_transactions = <<>>
    /\ expense_cat_map = <<>>

CategorizeNext == PreCategorize \/ CategorizeBatch \/ CategorizeReturn

SpecCategorize == CategorizeInit /\ [][CategorizeNext]_vars


\* the descriptions that carry a code of the table
HasTableCode(desc) == ExtractMcc(desc) # <<>> /\ MCC_CATEGORIES(ExtractMcc(desc)) # None
\* the AI call or the parsing of its response failed, or the response is no object
ReplyFailed(reply) ==
    \/ IsError(reply)
    \/ reply.content = <<>>
    \/ IsError(extract_json(reply.content))
    \/ ~IsDict(extract_json(reply.content))
\* the category names the response may use for the kind of the transactions
AllowedCategories(income) == IF income THEN VALID_INCOME_CATEGORIES ELSE VALID_CATEGORIES
\* entry j of the call got a usable category name in the response
Answered(call, j) ==
    /\ ~ReplyFailed(call.reply)
    /\ ToString(j) \in DOMAIN extract_json(call.reply.content).map
    /\ "name" \in DOMAIN extract_json(call.reply.content).map[ToString(j)]
    /\ extract_json(call.reply.content).map[ToString(j)].name \in AllowedCategories(is_income)

\* C15: the categorization never raises and its result has a category for every
\* input description; every description of a batch whose AI call or response
\* parsing failed has the default category, while a description answered in
\* another batch has the category of its answer and a description with a code
\* of the table has the category of the table.
C15_FailedBatchDefaultsOthersKeep ==
    /\ excel_outcome.kind # "raised"
    /\ excel_pc = "done" =>
          /\ excel_outcome.kind = "returned"
          /\ DOMAIN excel_outcome.value = Range(descriptions)
    /\ \A c \in DOMAIN ai_calls : \A j \in DOMAIN ai_calls[c].entries :
          /\ ai_calls[c].entries[j].desc \in DOMAIN category_map
          /\ ReplyFailed(ai_calls[c].reply) =>
                category_map[ai_calls[c].entries[j].desc] = DefaultCategory(is_income)
          /\ Answered(ai_calls[c], j) =>
                category_map[ai_calls[c].entries[j].desc] =
                    extract_json(ai_calls[c].reply.content).map[ToString(j)].name
    /\ (excel_pc \in {"batches", "done"} /\ ~is_income) =>
          \A desc \in Range(descriptions) :
              HasTableCode(desc) => category_map[desc] = MCC_CATEGORIES(ExtractMcc(desc))

\* two batches: the call of the first failed, the second was answered
C15_Witness ==
    /\ excel_pc = "done" /\ ~is_income
    /\ Len(ai_calls) = 2
    /\ IsError(ai_calls[1].reply)
    /\ Len(ai_calls[1].entries) = batch_size
    /\ \A j \in DOMAIN ai_calls[2].entries : Answered(ai_calls[2], j)
    /\ excel_outcome.value[ai_calls[1].entries[1].desc] = "Other"
    /\ excel_outcome.value[ai_calls[2].entries[1].desc] = "Food"
    /\ excel_outcome.value[D_PlaceFood] = "Food"

\* the entries that the prompts of the calls number
PromptedDescriptions ==
    UNION {{ai_calls[c].entries[j].desc : j \in DOMAIN ai_calls[c].entries} : c \in DOMAIN ai_calls}

\* C16: an expense description with a code of the table gets the category of
\* the table and is in no prompt; when every expense description has such a
\* code no AI call is made; an income description is never decided by the table:
\* all of them go to the AI.
C16_TableMatchesSkipAI ==
    /\ ~is_income =>
          /\ \A desc \in Range(descriptions) :
                HasTableCode(desc) =>
                    /\ desc \notin PromptedDescriptions
                    /\ desc \notin {needs_ai[j].desc : j \in DOMAIN needs_ai}
                    /\ excel_pc \in {"batches", "done"} =>
                          category_map[desc] = MCC_CATEGORIES(ExtractMcc(desc))
          /\ (\A desc \in Range(descriptions) : HasTableCode(desc)) => ai_calls = <<>>
    /\ is_income =>
          /\ excel_pc \in {"batches", "done"} /\ descriptions # <<>> =>
                {needs_ai[j].desc : j \in DOMAIN needs_ai} = Range(descriptions)
          /\ excel_pc = "done" /\ excel_outcome.kind = "returned" =>
                PromptedDescriptions = Range(descriptions)

\* every expense description has a code of the table: done without an AI call
C16_Witness ==
    /\ excel_pc = "done" /\ ~is_income
    /\ descriptions = <<D_PlaceFood, D_PlaceTaxi, D_PlaceFood>>
    /\ ai_calls = <<>>
    /\ excel_outcome.value = (D_PlaceFood :> "Food") @@ (D_PlaceTaxi :> "Transport")


(***************************************************************************)
(* services/excel_service.py: column detection.  A header cell is the text *)
(* of the cell; column indices count from 0 as in the source.              *)
(***************************************************************************)
DATE_PATTERNS ==
    {<<"~d","~a","~t","~a">>,
     <<"d","a","t","e">>}
AMOUNT_PATTERNS ==
    {<<"~s","~u","~m","~m","~a">>,
     <<"a","m","o","u","n","t">>,
     <<"~s","~t","~o","~i","~m","~o","~s","~t","~ss">>,
     <<"~r","~a","~s","~h","~o","~d">>,
     <<"~p","~r","~i","~h","~o","~d">>}
DESC_PATTERNS ==
    {<<"~o","~p","~i","~s","~a","~n","~i","~e">>,
     <<"d","e","s","c","r","i","p","t","i","o","n">>,
     <<"~n","~a","~z","~n","~a","~ch","~e","~n","~i","~e">>,
     <<"~n","~a","~i","~m","~e","~n","~o","~v","~a","~n","~i","~e">>,
     <<"~p","~o","~l","~u","~ch","~a","~t","~e","~l","~ss">>,
     <<"m","e","r","c","h","a","n","t">>,
     <<"~k","~o","~n","~t","~r","~a","~g","~e","~n","~t">>,
     <<"~n","~a","~z","~v","~a","~n","~i","~e">>,
     <<"~k","~o","~m","~m","~e","~n","~t","~a","~r","~i","~j">>,
     <<"~d","~e","~t","~a","~l","~i">>,
     <<"~i","~n","~f","~o","~r","~m","~a","~c","~i","~ya">>,
     <<"m","e","m","o">>,
     <<"d","e","t","a","i","l","s">>,
     <<"~k","~a","~t","~e","~g","~o","~r","~i","~ya"," ","~o","~p","~e","~r","~a","~c","~i","~i">>}
DESC_NEGATIVE ==
    {<<"~v","~a","~l","~yu","~t","~a">>,
     <<"~s","~t","~a","~t","~u","~s">>,
     <<"~n","~o","~m","~e","~r">>,
     <<"~b","~a","~l","~a","~n","~s">>,
     <<"~o","~s","~t","~a","~t","~o","~k">>,
     <<"~s","~ch","~yo","~t">>,
     <<"~s","~ch","~e","~t">>,
     <<"m","c","c">>}

\* _normalize_header
normalize_header(value) == Lower(Strip(value))

\* p in header
Contains(text, p) == \E i \in 1..(Len(text) - Len(p) + 1) : StartsAt(text, i, p)
\* _header_matches
header_matches(header, patterns) == \E p \in patterns : Contains(header, p)

IsDateCol(header) == header_matches(header, DATE_PATTERNS)

\* lines 188-197: the body of the first loop for the header at index idx
DetectStep(mapping, header, idx) ==
    IF header = <<>> THEN mapping
    ELSE IF "date" \notin DOMAIN mapping /\ IsDateCol(header)
    THEN ("date" :> idx) @@ mapping
    ELSE IF /\ "amount" \notin DOMAIN mapping
            /\ header_matches(header, AMOUNT_PATTERNS) /\ ~IsDateCol(header)
    THEN ("amount" :> idx) @@ mapping
    ELSE IF "description" \notin DOMAIN mapping /\ header_matches(header, DESC_PATTERNS)
    THEN (IF ~header_matches(header, DESC_NEGATIVE) /\ ~IsDateCol(header)
          THEN ("description" :> idx) @@ mapping
          ELSE mapping)
    ELSE mapping

\* the mapping after the first loop has seen the first n headers
RECURSIVE DetectLoop(_, _)
DetectLoop(normalized, n) ==
    IF n = 0 THEN <<>>
    ELSE DetectStep(DetectLoop(normalized, n - 1), normalized[n], n - 1)

\* lines 200-205: the first remaining text column, if any
FallbackColumns(normalized, mapping) ==
    {idx \in 0..(Len(normalized) - 1) :
        /\ idx \notin {mapping["date"], mapping["amount"]}
        /\ normalized[idx + 1] # <<>>
        /\ ~IsDateCol(normalized[idx + 1])
        /\ ~header_matches(normalized[idx + 1], DESC_NEGATIVE)}
WithFallback(normalized, mapping) ==
    IF /\ {"date", "amount"} \subseteq DOMAIN mapping
       /\ "description" \notin DOMAIN mapping
       /\ FallbackColumns(normalized, mapping) # {}
    THEN ("description" :> FirstOf(FallbackColumns(normalized, mapping))) @@ mapping
    ELSE mapping

\* lines 207-209: the mapping, or None
CompleteOrNone(mapping) ==
    IF {"date", "amount", "description"} \subseteq DOMAIN mapping
    THEN [date |-> mapping["date"], amount |-> mapping["amount"],
          description |-> mapping["description"]]
    ELSE NoRow

NormalizedHeaders(headers) == [i \in DOMAIN headers |-> normalize_header(headers[i])]
\* _detect_columns
detect_columns(headers) ==
    CompleteOrNone(WithFallback(NormalizedHeaders(headers),
                                DetectLoop(NormalizedHeaders(headers), Len(headers))))

\* _find_header_row over rows of text cells
IsHeaderRow(row) ==
    /\ \E i \in DOMAIN row : header_matches(normalize_header(row[i]), DATE_PATTERNS)
    /\ \E i \in DOMAIN row : header_matches(normalize_header(row[i]), AMOUNT_PATTERNS)
find_header_row(rows) ==
    IF \E i \in DOMAIN rows : IsHeaderRow(rows[i])
    THEN FirstOf({i \in DOMAIN rows : IsHeaderRow(rows[i])}) - 1
    ELSE 0


(***************************************************************************)
(* services/excel_service.py: the bank's own categories                    *)
(***************************************************************************)
BANK_FOOD ==
    {<<"~s","~u","~p","~e","~r","~m","~a","~r","~k","~e","~t","~y">>,
     <<"~f","~a","~s","~t","~f","~u","~d">>,
     <<"~r","~e","~s","~t","~o","~r","~a","~n","~y">>,
     <<"~p","~r","~o","~d","~u","~k","~t","~y">>,
     <<"~k","~a","~f","~e">>,
     <<"~e","~d","~a">>,
     <<"~d","~o","~s","~t","~a","~v","~k","~a"," ","~e","~d","~y">>,
     <<"~k","~u","~l","~i","~n","~a","~r","~i","~ya">>}
BANK_TRANSPORT ==
    {<<"~t","~r","~a","~n","~s","~p","~o","~r","~t">>,
     <<"~t","~a","~k","~s","~i">>,
     <<"~a","~v","~t","~o","~u","~s","~l","~u","~g","~i">>,
     <<"~t","~o","~p","~l","~i","~v","~o">>,
     <<"~a","~v","~i","~a","~b","~i","~l","~e","~t","~y">>,
     <<"~zh","~d"," ","~b","~i","~l","~e","~t","~y">>,
     <<"~o","~b","~sch","~e","~s","~t","~v","~e","~n","~n","~y","~j"," ","~t","~r","~a","~n","~s","~p","~o","~r","~t">>,
     <<"~k","~a","~r","~sh","~e","~r","~i","~n","~g">>,
     <<"~p","~a","~r","~k","~o","~v","~k","~i">>,
     <<"~a","~v","~t","~o","~m","~o","~b","~i","~l","~ss">>}
BANK_ENTERTAINMENT ==
    {<<"~r","~a","~z","~v","~l","~e","~ch","~e","~n","~i","~ya">>,
     <<"~k","~i","~n","~o">>,
     <<"~m","~u","~z","~y","~k","~a">>,
     <<"~i","~g","~r","~y">>,
     <<"~p","~o","~d","~p","~i","~s","~k","~i">>,
     <<"~s","~t","~r","~i","~m","~i","~n","~g">>,
     <<"~k","~n","~i","~g","~i">>}
BANK_HEALTH ==
    {<<"~z","~d","~o","~r","~o","~v","~ss","~e">>,
     <<"~a","~p","~t","~e","~k","~i">>,
     <<"~m","~e","~d","~i","~c","~i","~n","~a">>,
     <<"~k","~r","~a","~s","~o","~t","~a">>,
     <<"~s","~p","~o","~r","~t">>,
     <<"~f","~i","~t","~n","~e","~s">>}
BANK_BILLS ==
    {<<"~zh","~k","~h">>,
     <<"~s","~v","~ya","~z","~ss">>,
     <<"~i","~n","~t","~e","~r","~n","~e","~t">>,
     <<"~k","~o","~m","~m","~u","~n","~a","~l","~ss","~n","~y","~e">>,
     <<"~m","~o","~b","~i","~l","~ss","~n","~a","~ya"," ","~s","~v","~ya","~z","~ss">>,
     <<"~o","~b","~r","~a","~z","~o","~v","~a","~n","~i","~e">>,
     <<"~s","~t","~r","~a","~h","~o","~v","~a","~n","~i","~e">>}
BANK_SHOPPING ==
    {<<"~o","~d","~e","~zh","~d","~a">>,
     <<"~o","~b","~u","~v","~ss">>,
     <<"~eh","~l","~e","~k","~t","~r","~o","~n","~i","~k","~a">>,
     <<"~t","~o","~v","~a","~r","~y"," ","~d","~l","~ya"," ","~d","~o","~m","~a">>,
     <<"~m","~a","~r","~k","~e","~t","~p","~l","~e","~j","~s","~y">>,
     <<"~c","~v","~e","~t","~y">>,
     <<"~zh","~i","~v","~o","~t","~n","~y","~e">>}
\* _BANK_CATEGORY_MAP.get(bank_cat): the category, or None
BANK_CATEGORY_MAP(bank_cat) ==
    CASE bank_cat \in BANK_FOOD -> "Food"
      [] bank_cat \in BANK_TRANSPORT -> "Transport"
      [] bank_cat \in BANK_ENTERTAINMENT -> "Entertainment"
      [] bank_cat \in BANK_HEALTH -> "Health"
      [] bank_cat \in BANK_BILLS -> "Bills"
      [] bank_cat \in BANK_SHOPPING -> "Shopping"
      [] OTHER -> None

\* _map_bank_categories: description -> category, the last transaction winning
MappedByBank(tx) == BANK_CATEGORY_MAP(Strip(Lower(tx.bank_category))) # None
map_bank_categories(transactions) ==
    [desc \in {transactions[i].description :
                  i \in {j \in DOMAIN transactions : MappedByBank(transactions[j])}} |->
        BANK_CATEGORY_MAP(Strip(Lower(
            transactions[CHOOSE i \in DOMAIN transactions :
                /\ transactions[i].description = desc /\ MappedByBank(transactions[i])
                /\ \A j \in DOMAIN transactions :
                      (transactions[j].description = desc /\ MappedByBank(transactions[j]))
                          => j <= i].bank_category)))]

(***************************************************************************)
(* services/excel_service.py: _parse_russian_number and the row extraction *)
(* of parse_excel_bytes.  A cell is its text.                              *)
(***************************************************************************)
\* re.sub(r'[<currency signs>\s ]', '', s).replace(',', '.').lstrip('+')
RussianNumberText(s) ==
    LStripChars(Replace(Remove(s, {"RUBLE", "$", "EURO", "POUND"} \cup Whitespace),
                        <<",">>, <<".">>), {"+"})
\* lines 172-176 for the Decimal that the text reads as
DecimalOrNone(d) == IF IsError(d) THEN NoRow ELSE d
\* _parse_russian_number: the Decimal, or None
parse_russian_number(value) ==
    IF Strip(value) = <<>> THEN NoRow
    ELSE DecimalOrNone(Decimal(RussianNumberText(Strip(value))))

\* the position of row[idx] in the row (0: IndexError)
PyIndex(row, idx) ==
    IF idx >= 0 THEN (IF idx < Len(row) THEN idx + 1 ELSE 0)
    ELSE (IF Len(row) + idx >= 0 THEN Len(row) + idx + 1 ELSE 0)

\* lines 476-481: the index of the bank's category column, or -1 for None
IsCategoryHeader(h) ==
    normalize_header(h) \in {<<"~k","~a","~t","~e","~g","~o","~r","~i","~ya">>,
                             <<"c","a","t","e","g","o","r","y">>}
bank_cat_col(headers) ==
    IF \E i \in DOMAIN headers : IsCategoryHeader(headers[i])
    THEN FirstOf({i \in DOMAIN headers : IsCategoryHeader(headers[i])}) - 1
    ELSE -1

\* lines 510-512
BankCategoryOf(row, cat_col) ==
    IF cat_col # -1 /\ cat_col < Len(row) THEN Strip(row[cat_col + 1]) ELSE <<>>

\* lines 496-522 for the amount that _parse_russian_number gave: the raw
\* transaction, NoRow for a skipped row, or InvalidOperation (NaN > 0)
RowWithAmount(amount, date_val, desc_val, bank_category) ==
    IF amount = NoRow \/ IsZero(amount) THEN NoRow
    ELSE IF amount.kind = "nan" THEN InvalidOperation
    ELSE [amount |-> DecimalAbs(amount),
          date |-> parse_date(JStr(date_val)),
          description |-> desc_val,
          bank_category |-> bank_category,
          type |-> IF amount.neg THEN "expense" ELSE "income"]

\* lines 489-494 for the cells of the three columns
RowWithCells(date_val, amount_val, desc_val, bank_category) ==
    IF amount_val = <<>> \/ desc_val = <<>> THEN NoRow
    ELSE RowWithAmount(parse_russian_number(amount_val), date_val, desc_val, bank_category)

\* the body of the loop over data_rows (lines 486-520)
RowTransaction(row, mapping, cat_col) ==
    IF Len(row) <= Max(mapping.date, Max(mapping.amount, mapping.description)) THEN NoRow
    ELSE IF 0 \in {PyIndex(row, mapping.date), PyIndex(row, mapping.amount),
                   PyIndex(row, mapping.description)}
    THEN Raise("IndexError", "list index out of range")
    ELSE RowWithCells(Strip(row[PyIndex(row, mapping.date)]),
                      Strip(row[PyIndex(row, mapping.amount)]),
                      Strip(row[PyIndex(row, mapping.description)]),
                      BankCategoryOf(row, cat_col))

\* lines 484-523 for what the loop body gave for every row: the raw
\* transactions (as the field txs), or the exception
RawFrom(results) ==
    IF \E i \in DOMAIN results : IsError(results[i])
    THEN results[FirstOf({i \in DOMAIN results : IsError(results[i])})]
    ELSE IF SelectSeq(results, LAMBDA r : r # NoRow) = <<>>
    THEN Raise("ValueError", "No valid transactions found in Excel file")
    ELSE [txs |-> SelectSeq(results, LAMBDA r : r # NoRow)]

\* lines 528-531: tx['merchant'], tx['mcc']
WithMerchant(tx, extracted) ==
    [amount |-> tx.amount, date |-> tx.date, description |-> tx.description,
     bank_category |-> tx.bank_category, type |-> tx.type,
     merchant |-> extracted.merchant, mcc |-> extracted.mcc]

\* rows = [row for row in rows if any(str(cell).strip() for cell in row)]
NonEmptyRows(rows) ==
    SelectSeq(rows, LAMBDA row : \E i \in DOMAIN row : Strip(row[i]) # <<>>)
HeadersOf(rows) == rows[find_header_row(rows) + 1]
DataRowsOf(rows) == SubSeq(rows, find_header_row(rows) + 2, Len(rows))

\* int(value) of a JSON value, as the field int, or the exception
IntOfDecimal(d) ==
    IF d.kind # "finite" THEN Raise("ValueError", "cannot convert float NaN to integer")
    ELSE [int |-> (IF d.neg THEN -1 ELSE 1) * (d.coef \div Pow10(d.places))]
IntOfText(s) ==
    IF s # <<>> /\ Head(s) \in {"+", "-"} /\ Len(s) >= 2 /\ AllDigits(s, 2, Len(s) - 1)
    THEN [int |-> (IF Head(s) = "-" THEN -1 ELSE 1) * DigitsValue(Tail(s))]
    ELSE IF s # <<>> /\ AllDigits(s, 1, Len(s))
    THEN [int |-> DigitsValue(s)]
    ELSE Raise("ValueError", "invalid literal for int() with base 10")
PyInt(value) ==
    IF value.t = "num" THEN IntOfDecimal(Decimal(value.num))
    ELSE IF IsChars(value) THEN IntOfText(Strip(value.chars))
    ELSE IF "name" \in DOMAIN value THEN Raise("ValueError", "invalid literal for int() with base 10")
    ELSE Raise("TypeError", "int() argument must be a string or a real number")

\* lines 329-333 for the three converted values
AiMappingOf(date, amount, description) ==
    IF IsError(date) \/ IsError(amount) \/ IsError(description) THEN NoRow
    ELSE [date |-> date.int, amount |-> amount.int, description |-> description.int]

\* lines 322-336 for what _extract_json gave, or what was raised before it:
\* every exception is caught (except Exception) and gives None
AiMapping(data) ==
    IF IsError(data) THEN NoRow
    ELSE IF /\ IsDict(data)
            /\ \A k \in {"date", "amount", "description"} :
                   k \in DOMAIN data.map /\ data.map[k] # JNull
    THEN AiMappingOf(PyInt(data.map["date"]), PyInt(data.map["amount"]),
                     PyInt(data.map["description"]))
    ELSE NoRow

\* _detect_columns_with_ai: the mapping, or None
detect_columns_with_ai(api) == AiMapping(DecodedReply(call_ai(api)))


(***************************************************************************)
(* ExcelParsingService.parse_excel_bytes.  workbook is what the loader     *)
(* returned; the service and the learning store are the variables service  *)
(* and mappings.  Each call of _categorize_descriptions runs as the        *)
(* actions PreCategorize, CategorizeBatch and CategorizeReturn.            *)
(***************************************************************************)
\* line 457, if col_mapping is None: whether the AI is asked for the columns
NeedsAiDetection_Always(mapping) == TRUE
NeedsAiDetection(mapping) == mapping = NoRow

ExcelRaise(exc) ==
    /\ excel_pc' = "done"
    /\ excel_outcome' = [kind |-> "raised", error |-> exc]

\* lines 442-462: the rows, the header row and the header heuristic
FindColumnsIn(rows) ==
    IF Len(rows) < 2
    THEN /\ ExcelRaise(Raise("ValueError", "Excel file has no data rows"))
         /\ UNCHANGED col_mapping
    ELSE IF NeedsAiDetection(detect_columns(HeadersOf(rows)))
    THEN /\ excel_pc' = "ai_detect"
         /\ col_mapping' = detect_columns(HeadersOf(rows))
         /\ UNCHANGED excel_outcome
    ELSE /\ excel_pc' = "extract"
         /\ col_mapping' = detect_columns(HeadersOf(rows))
         /\ UNCHANGED excel_outcome
FindColumns ==
    /\ excel_pc = "load"
    /\ FindColumnsIn(NonEmptyRows(workbook))
    /\ UNCHANGED <<workbook, ai_calls, descriptions, is_income, category_map, needs_ai,
                   batch_start, categorize_caller, raw_transactions, expense_cat_map,
                   db_vars, req, ocr_vars, upload_vars, norm_vars, web_vars, cache_vars>>

\* what the completion may be for the column question
ColumnAnswer(date, amount, description) ==
    JDict(Field("date", date) @@ Field("amount", amount) @@ Field("description", description))
ColumnReplies ==
    {Raise("APIConnectionError", "Connection error."),
     [content |-> <<>>],
     [content |-> <<TProse>>],
     [content |-> Plain(JList(<<JNum(<<"0">>), JNum(<<"1">>), JNum(<<"2">>)>>))],
     [content |-> Plain(ColumnAnswer(JNum(<<"0">>), JNum(<<"1">>), JNum(<<"2">>)))],
     [content |-> Fenced(ColumnAnswer(JStr(<<"0">>), JStr(<<" ", "1">>), JNum(<<"2", ".", "0">>)))],
     [content |-> Plain(ColumnAnswer(JNum(<<"0">>), JNum(<<"0">>), JNum(<<"2">>)))],
     [content |-> Plain(ColumnAnswer(JNum(<<"0">>), JNum(<<"1">>), JNum(<<"1">>)))],
     [content |-> Plain(ColumnAnswer(JNum(<<"0">>), JNum(<<"1">>), JAbsent))],
     [content |-> Plain(ColumnAnswer(JNum(<<"0">>), JNum(<<"1">>), JNull))],
     [content |-> Plain(ColumnAnswer(JNum(<<"0">>), JNum(<<"1">>), JStr(<<"C">>)))],
     [content |-> Plain(ColumnAnswer(JNum(<<"0">>), JNum(<<"1">>), JList(<<>>)))],
     [content |-> InProse(ColumnAnswer(JNum(<<"0">>), JNum(<<"1">>), JNum(<<"7">>)))],
     [content |-> Plain(ColumnAnswer(JNum(<<"0">>), JNum(<<"1">>), JNum(<<"-", "1">>)))]}

\* sample = [headers] + data_rows[:5]
SampleRows(rows) ==
    <<HeadersOf(rows)>> \o SubSeq(DataRowsOf(rows), 1, Min(5, Len(DataRowsOf(rows))))

\* lines 458-469: the AI-assisted detection and the rejection of the file
DetectColumnsWithAIGiving(api, mapping) ==
    /\ ai_calls' = Append(ai_calls, [kind |-> "columns",
                                     template |-> "COLUMN_DETECT_PROMPT",
                                     entries |-> SampleRows(NonEmptyRows(workbook)),
                                     reply |-> api])
    /\ col_mapping' = mapping
    /\ IF mapping = NoRow
       THEN ExcelRaise(Raise("ValueError", "Could not detect date/amount/description columns"))
       ELSE /\ excel_pc' = "extract"
            /\ UNCHANGED excel_outcome
DetectColumnsWithAI ==
    /\ excel_pc = "ai_detect"
    /\ \E api \in ColumnReplies : DetectColumnsWithAIGiving(api, detect_columns_with_ai(api))
    /\ UNCHANGED <<workbook, descriptions, is_income, category_map, needs_ai,
                   batch_start, categorize_caller, raw_transactions, expense_cat_map,
                   db_vars, req, ocr_vars, upload_vars, norm_vars, web_vars, cache_vars>>

\* lines 471-542: the raw transactions, their merchants, and the call of
\* _categorize_descriptions for the expenses
ExtractRowsGiving(raw) ==
    IF IsError(raw)
    THEN /\ ExcelRaise(raw)
         /\ UNCHANGED <<raw_transactions, descriptions, is_income, categorize_caller>>
    ELSE /\ raw_transactions' =
                [i \in DOMAIN raw.txs |->
                    WithMerchant(raw.txs[i], extract_merchant_and_mcc(raw.txs[i].description))]
         /\ descriptions' = DescriptionsOfType(raw.txs, "expense")
         /\ is_income' = FALSE
         /\ categorize_caller' = "expenses"
         /\ excel_pc' = "categorize"
         /\ UNCHANGED excel_outcome
RowResults(rows, mapping, cat_col) ==
    [i \in DOMAIN rows |-> RowTransaction(rows[i], mapping, cat_col)]
ExtractRows ==
    /\ excel_pc = "extract"
    /\ ExtractRowsGiving(RawFrom(RowResults(DataRowsOf(NonEmptyRows(workbook)), col_mapping,
                                            bank_cat_col(HeadersOf(NonEmptyRows(workbook))))))
    /\ UNCHANGED <<workbook, col_mapping, ai_calls, category_map, needs_ai, batch_start,
                   expense_cat_map, db_vars, req, ocr_vars, upload_vars, norm_vars, web_vars, cache_vars>>

\* lines 555-557: the category before the learning store
CategoryFrom(tx, category, bank_cat_map) ==
    IF tx.type # "income" /\ category = "Other" /\ tx.description \in DOMAIN bank_cat_map
    THEN bank_cat_map[tx.description]
    ELSE category
CategoryOf(tx, cat_map, bank_cat_map) ==
    CategoryFrom(tx,
        IF tx.description \in DOMAIN cat_map THEN cat_map[tx.description]
        ELSE DefaultCategory(tx.type = "income"),
        bank_cat_map)
\* line 558, in hundredths
ExcelConfidence(category) == IF category \notin {"Other", "OtherIncome"} THEN 70 ELSE 30

\* lines 561-572: ParsedTransaction(...) with the learned category, or the
\* validation error of the schema
ExcelTransaction(tx, learned) ==
    IF tx.amount.kind # "finite" THEN Raise("ValueError", "ValidationError")
    ELSE [amount |-> tx.amount,
          description |-> tx.merchant,
          date |-> tx.date,
          category |-> learned.category,
          currency |-> RUB,
          raw_text |-> <<"E", "x", "c", "e", "l">>,
          confidence |-> learned.confidence]

\* the loop of lines 547-572 for one raw transaction and its category
ExcelBuildOne(svc, maps, tx, category) ==
    ExcelTransaction(tx, apply_learned_category(svc.db, maps, svc.user_id, tx.merchant,
                                                category, ExcelConfidence(category)))

\* lines 546-581 for the built transactions: the dict, or the exception
ExcelResult(built) ==
    IF \E i \in DOMAIN built : IsError(built[i])
    THEN built[FirstOf({i \in DOMAIN built : IsError(built[i])})]
    ELSE [transactions |-> built,
          total_amount |-> SumAmounts(built),
          chart |-> NoRow,
          raw_text |-> <<"E", "x", "c", "e", "l">>]

BuildTransactionsWith(bank_cat_map) ==
    excel_outcome' = Outcome(ExcelResult(
        [i \in DOMAIN raw_transactions |->
            ExcelBuildOne(service, mappings, raw_transactions[i],
                CategoryOf(raw_transactions[i],
                           IF raw_transactions[i].type = "income"
                           THEN category_map ELSE expense_cat_map,
                           bank_cat_map))]))
BuildTransactions ==
    /\ excel_pc = "build"
    /\ excel_pc' = "done"
    /\ BuildTransactionsWith(map_bank_categories(
            SelectSeq(raw_transactions, LAMBDA tx : tx.type = "expense")))
    /\ UNCHANGED <<workbook, col_mapping, ai_calls, descriptions, is_income, category_map,
                   needs_ai, batch_start, categorize_caller, raw_transactions,
                   expense_cat_map, db_vars, req, ocr_vars, upload_vars, norm_vars, web_vars, cache_vars>>

H_Date == <<"~D","~a","~t","~a">>
H_Amount == <<"~S","~u","~m","~m","~a">>
H_Description == <<"~O","~p","~i","~s","~a","~n","~i","~e">>
H_Category == <<"~K","~a","~t","~e","~g","~o","~r","~i","~ya">>
H_DateOfOperation == <<"~D","~a","~t","~a"," ","~o","~p","~e","~r","~a","~c","~i","~i">>
H_Shop == <<"~M","~a","~g","~a","~z","~i","~n">>
H_Statement == <<"~V","~y","~p","~i","~s","~k","~a"," ","~p","~o"," ","~s","~ch","~yo","~t","~u">>
BankSupermarkets == <<"~S","~u","~p","~e","~r","~m","~a","~r","~k","~e","~t","~y">>
Row_Expense == <<<<"1","5",".","0","1",".","2","0","2","6">>, <<"-","1"," ","5","0","0",",","5","0">>, D_PlaceFood>>
Row_Zero == <<<<"1","6",".","0","1",".","2","0","2","6">>, <<"0">>, ShopDescription(11)>>
Row_Income == <<<<"1","7",".","0","1",".","2","0","2","6">>, <<"+","2","0","0"," ","RUBLE">>, D_Transfer>>
Row_NoAmount == <<<<"1","8",".","0","1",".","2","0","2","6">>, <<" ">>, ShopDescription(12)>>
Row_BadAmount == <<<<"1","9",".","0","1",".","2","0","2","6">>, <<"1",".","2","3","4",",","5","6">>, ShopDescription(13)>>
Row_Learned == <<<<"2","0","2","6","-","0","1","-","2","0">>, <<"-","9","9",".","9","0">>, D_Pyaterochka>>
Row_NaN == <<<<"2","1",".","0","1",".","2","0","2","6">>, <<"n","a","n">>, ShopDescription(14)>>
Row_Infinity == <<<<"2","2",".","0","1",".","2","0","2","6">>, <<"-","i","n","f">>, ShopDescription(15)>>
Row_Blank == <<<<>>, <<" "," ">>, <<>>>>
Row_Short == <<<<"2","3",".","0","1",".","2","0","2","6">>, <<"-","1","0">>>>
Row_Banked == <<<<"2","4",".","0","1",".","2","0","2","6">>, ShopDescription(16), <<"-","2","5","0">>, BankSupermarkets>>
Row_BankedIncome == <<<<"2","5",".","0","1",".","2","0","2","6">>, ShopDescription(17), <<"3","0","0",",","0","0">>, BankSupermarkets>>
\* the description of the end-to-end row: a legal prefix, a name, a code
D_EndToEnd == D_OooPyaterochka \o <<",", " ", "M", "C", "C", ":", " ", "5", "4", "1", "1">>
Row_EndToEnd == <<<<"1","5",".","0","1",".","2","0","2","6">>, <<"-","1"," ","5","0","0",",","0","0">>, D_EndToEnd>>

Workbooks ==
    {<< <<H_Date, H_Amount, H_Description>>, Row_Expense, Row_Zero, Row_Blank, Row_Income >>,
     << <<H_Date, H_Amount, H_Description>>, Row_NoAmount, Row_BadAmount, Row_Short >>,
     << <<H_Date, H_Amount, H_Description>>, Row_Expense, Row_NaN >>,
     << <<H_Date, H_Amount, H_Description>>, Row_Infinity >>,
     << <<H_Date, H_Amount, H_Description>> >>,
     << <<H_DateOfOperation, H_Amount, H_Shop>>, Row_Learned, Row_BadAmount >>,
     << <<H_Statement, <<>>, <<>>, <<>> >>,
        <<H_Date, H_Description, H_Amount, H_Category>>, Row_Banked, Row_BankedIncome >>,
     << << <<"A">>, <<"B">>, <<"C">> >>, Row_Expense, Row_Income >>,
     << <<H_Date, H_Amount>>, Row_Short >>,
     << <<H_Date, H_Amount, H_Description>>, Row_EndToEnd >>}

ExcelInit ==
    /\ tx_seq = 0 /\ corrections = <<>> /\ http_status = 0
    /\ service \in {svc \in Services : svc.BACKOFF_BASE = BACKOFF_BASE}
    /\ mappings \in {maps \in LearnedMappings : maps = {} \/ service.db}
    /\ req = [r \in Requests |-> IdleRequest]
    /\ parser = "parse_multiple_response"
    /\ content = <<>>
    /\ attempt = 0 /\ last_error = NoError /\ calls = 0
    /\ attempt_errors = <<>> /\ sleeps = <<>>
    /\ outcome = Running
    /\ UploadIdle
    /\ NormIdle
    /\ WebIdle
    /\ CacheIdle
    /\ workbook \in Workbooks
    /\ col_mapping = NoRow
    /\ excel_pc = "load"
    /\ excel_outcome = Running
    /\ ai_calls = <<>>
    /\ descriptions = <<>>
    /\ is_income = FALSE
    /\ category_map = <<>>
    /\ needs_ai = <<>>
    /\ batch_start = 0
    /\ categorize_caller = "expenses"
    /\ raw_transactions = <<>>
    /\ expense_cat_map = <<>>

ExcelNext ==
    \/ FindColumns
    \/ DetectColumnsWithAI
    \/ ExtractRows
    \/ PreCategorize
    \/ CategorizeBatch
    \/ CategorizeReturn
    \/ BuildTransactions

SpecExcel == ExcelInit /\ [][ExcelNext]_vars


\* the calls of the AI that ask for the columns
ColumnCalls == {c \in DOMAIN ai_calls : ai_calls[c].kind = "columns"}

\* C17: a column mapping that detection hands to row extraction has date,
\* amount and description resolved to pairwise distinct column indices,
\* whether the header heuristic or the AI produced it; when detection yields
\* no mapping the file is rejected with an error.
C17_MappingDistinctOrRejected ==
    /\ col_mapping # NoRow =>
          /\ col_mapping.date # col_mapping.amount
          /\ col_mapping.date # col_mapping.description
          /\ col_mapping.amount # col_mapping.description
    /\ (excel_pc \notin {"load", "ai_detect"} /\ col_mapping = NoRow) =>
          excel_outcome.kind = "raised"

\* C18: the AI is asked for the columns at most once per file, only when the
\* header heuristic resolved no complete mapping, and before any other AI
\* call; when the heuristic resolves the three roles its mapping is the one
\* used and no column question is asked.
C18_AiDetectionOnlyAfterHeuristicFails ==
    /\ Cardinality(ColumnCalls) <= 1
    /\ ColumnCalls \subseteq {1}
    /\ ColumnCalls # {} =>
          /\ Len(NonEmptyRows(workbook)) >= 2
          /\ detect_columns(HeadersOf(NonEmptyRows(workbook))) = NoRow
    /\ ( /\ excel_pc \notin {"load"}
         /\ Len(NonEmptyRows(workbook)) >= 2
         /\ detect_columns(HeadersOf(NonEmptyRows(workbook))) # NoRow ) =>
          /\ ColumnCalls = {}
          /\ col_mapping = detect_columns(HeadersOf(NonEmptyRows(workbook)))

\* the headers Date, Amount, Description in Russian: the file was parsed, its
\* AI calls are categorization calls only
C18_Witness ==
    /\ HeadersOf(NonEmptyRows(workbook)) = <<H_Date, H_Amount, H_Description>>
    /\ excel_pc = "done"
    /\ excel_outcome.kind = "returned"
    /\ col_mapping = [date |-> 0, amount |-> 1, description |-> 2]
    /\ ai_calls # <<>>
    /\ ColumnCalls = {}


\* a Decimal strictly greater than zero
StrictlyPositive(d) == d.kind = "finite" /\ ~d.neg /\ d.coef > 0
\* the transactions of a returned result: of a dict with transactions, or the
\* one transaction that _parse_response returns
ReturnedTransactions(value) ==
    IF "transactions" \in DOMAIN value THEN value.transactions ELSE <<value>>
AllStrictlyPositive(txs) == \A i \in DOMAIN txs : StrictlyPositive(txs[i].amount)

\* C19: every ParsedTransaction that the image pipeline (the parsers of
\* OCRService) or the spreadsheet pipeline (parse_excel_bytes) returns has an
\* amount strictly greater than zero.
C19_ReturnedAmountsStrictlyPositive ==
    /\ outcome.kind = "returned" =>
          AllStrictlyPositive(ReturnedTransactions(outcome.value))
    /\ (categorize_caller # "direct" /\ excel_outcome.kind = "returned") =>
          AllStrictlyPositive(ReturnedTransactions(excel_outcome.value))


(***************************************************************************)
(* normalize_merchant_name applied to a description, and again to its own  *)
(* result.                                                                 *)
(***************************************************************************)
NormalizeApplications == 2

NamePrefixes ==
    {<<>>, <<"~O","~O","~O"," ">>, <<"LAQUO","~O","~O","~O","RAQUO"," ">>, <<"~I","~P","*"," ">>, <<"~O","~p","~l","~a","~t","~a"," ">>}
NameBodies ==
    {<<"M","e","t","r","o">>, <<"~P","~ya","~t","~yo","~r","~o","~ch","~k","~a">>, <<"~YA","~n","~d","~e","~k","~s",".","~E","~d","~a">>, <<"s","h","o","p">>}
NameTails ==
    {<<>>, <<" ","#","1","2">>, <<" ","#","1","2"," ","#","5">>, <<" ","NUMERO","1">>, <<" ","n","o"," ","5"," ","n","o"," ","6">>, <<" ","1","2",".","5","0">>}
NormalizeInputs ==
    {prefix \o body \o tail : prefix \in NamePrefixes, body \in NameBodies, tail \in NameTails}

NormalizeInit ==
    /\ DbInit
    /\ req = [r \in Requests |-> IdleRequest]
    /\ OcrIdle
    /\ UploadIdle
    /\ ExcelIdle
    /\ WebIdle
    /\ CacheIdle
    /\ normalizations \in {<<description>> : description \in NormalizeInputs}

NormalizeAgain ==
    /\ Len(normalizations) <= NormalizeApplications
    /\ normalizations' = Append(normalizations, normalize_merchant_name(normalizations[Len(normalizations)]))
    /\ UNCHANGED <<db_vars, req, ocr_vars, upload_vars, excel_vars, web_vars, cache_vars>>

SpecNormalize == NormalizeInit /\ [][NormalizeAgain]_vars

\* C20: normalize_merchant_name is idempotent: the result of the second
\* application equals the result of the first.
C20_NormalizeIdempotent ==
    Len(normalizations) >= 3 => normalizations[3] = normalizations[2]


\* the sheet of the end-to-end example: the keyword headers and the one row
EndToEndWorkbook == << <<H_Date, H_Amount, H_Description>>, Row_EndToEnd >>
CodeSuffix == <<"M", "C", "C", ":", " ", "5", "4", "1", "1">>

\* C21: the row 15.01.2026, -1 500,00, 'OOO Pyaterochka, MCC: 5411' yields
\* exactly one transaction, of type expense, with amount 1500.00 and category
\* Food from the code table without an AI call, and the merchant key of the
\* returned description contains the name but neither the legal prefix nor
\* the code suffix (the key is lower case, so is the suffix looked for).
C21_EndToEndRow ==
    (workbook = EndToEndWorkbook /\ excel_pc = "done") =>
        /\ excel_outcome.kind = "returned"
        /\ Len(excel_outcome.value.transactions) = 1
        /\ raw_transactions[1].type = "expense"
        /\ StrictlyPositive(excel_outcome.value.transactions[1].amount)
        /\ Hundredths(excel_outcome.value.transactions[1].amount) = 150000
        /\ excel_outcome.value.transactions[1].category = "Food"
        /\ ai_calls = <<>>
        /\ Contains(MerchantKey(excel_outcome.value.transactions[1].description), D_Pyaterochka)
        /\ ~Contains(MerchantKey(excel_outcome.value.transactions[1].description), Lower(<<"~O","~O","~O">>))
        /\ ~Contains(MerchantKey(excel_outcome.value.transactions[1].description), Lower(CodeSuffix))


(***************************************************************************)
(* rate_limiter.py: RateLimiter.  A timestamp is a whole number of         *)
(* seconds; _store is a function from the keys it holds to their lists of  *)
(* timestamps.  check reads the time, then takes the lock: a calling       *)
(* thread is between the two until it holds the lock, and the steps of     *)
(* other threads and the clock may come in between.                        *)
(***************************************************************************)
rate_limit_window == 60
rate_limit_max_requests == 10
max_keys == 10000
cleanup_interval == 300

\* the max_requests of the limiter that the concurrent callers share
MaxRequests == 2
\* how many calls of check the model follows, and how often the clock advances
MaxChecks == 4
MaxTicks == 3

\* [t for t in times if now - t < window]
Recent(times, now, window) == SelectSeq(times, LAMBDA t : now - t < window)

\* _cleanup: the store without the keys that have no recent timestamp
cleanup(store, now, window) ==
    [k \in {key \in DOMAIN store : Recent(store[key], now, window) # <<>>} |-> store[k]]

\* lines 53-57: self after the cleanup that check may do
AfterCleanup(self, now, window) ==
    IF now - self.last_cleanup > cleanup_interval \/ Cardinality(DOMAIN self.store) > max_keys
    THEN [store |-> cleanup(self.store, now, window), last_cleanup |-> now]
    ELSE self

\* self._store.get(key, [])
StoreGet(store, key) == IF key \in DOMAIN store THEN store[key] ELSE <<>>

\* self._store[key] = attempts
StorePut(self, key, attempts) ==
    [store |-> [k \in DOMAIN self.store \cup {key} |->
                    IF k = key THEN attempts ELSE self.store[k]],
     last_cleanup |-> self.last_cleanup]

\* lines 59-68 for the recent attempts of the key: self afterwards, and
\* whether HTTPException(429) was raised
CheckAttempts(self, key, now, attempts, max_requests) ==
    IF Len(attempts) >= max_requests
    THEN [self |-> StorePut(self, key, attempts), raised |-> TRUE]
    ELSE [self |-> StorePut(self, key, Append(attempts, now)), raised |-> FALSE]

\* the locked part of check (lines 52-68)
CheckLocked(self, key, now, window, max_requests) ==
    CheckAttempts(AfterCleanup(self, now, window), key, now,
                  Recent(StoreGet(AfterCleanup(self, now, window).store, key), now, window),
                  max_requests)

LimiterKeys == {"1.2.3.4", "2.2.2.2"}
Threads == {1, 2}
\* a thread that is not inside check
IdleThread == [pc |-> "idle", key |-> "", now |-> 0]
ClockSteps == {1, rate_limit_window - 1, cleanup_interval}

\* the clock advances
Tick ==
    /\ ticks < MaxTicks
    /\ ticks' = ticks + 1
    /\ \E d \in ClockSteps : clock' = clock + d
    /\ UNCHANGED <<limiter, callers, limiter_log, failed_logins, login_log,
                   db_vars, req, ocr_vars, upload_vars, excel_vars, norm_vars, cache_vars>>

\* line 50: now = time.time()
CheckBegin(t) ==
    /\ callers[t].pc = "idle"
    /\ Len(limiter_log) + Cardinality({u \in Threads : callers[u].pc = "waiting"}) < MaxChecks
    /\ \E key \in LimiterKeys :
          callers' = [callers EXCEPT ![t] = [pc |-> "waiting", key |-> key, now |-> clock]]
    /\ UNCHANGED <<clock, ticks, limiter, limiter_log, failed_logins, login_log,
                   db_vars, req, ocr_vars, upload_vars, excel_vars, norm_vars, cache_vars>>

CheckWith(t, result) ==
    /\ limiter' = result.self
    /\ limiter_log' = Append(limiter_log,
          [key |-> callers[t].key, now |-> callers[t].now, at |-> clock,
           accepted |-> ~result.raised])
    /\ callers' = [callers EXCEPT ![t] = IdleThread]

\* lines 51-68: with self._lock
CheckEnd(t) ==
    /\ callers[t].pc = "waiting"
    /\ CheckWith(t, CheckLocked(limiter, callers[t].key, callers[t].now,
                                rate_limit_window, MaxRequests))
    /\ UNCHANGED <<clock, ticks, failed_logins, login_log,
                   db_vars, req, ocr_vars, upload_vars, excel_vars, norm_vars, cache_vars>>

LimiterInit ==
    /\ DbInit
    /\ req = [r \in Requests |-> IdleRequest]
    /\ OcrIdle
    /\ UploadIdle
    /\ ExcelIdle
    /\ NormIdle
    /\ clock = cleanup_interval + 1
    /\ ticks = 0
    /\ limiter = [store |-> <<>>, last_cleanup |-> 0]
    /\ callers = [t \in Threads |-> IdleThread]
    /\ limiter_log = <<>>
    /\ failed_logins = <<>>
    /\ login_log = <<>>
    /\ CacheIdle

LimiterNext ==
    \/ Tick
    \/ \E t \in Threads : CheckBegin(t)
    \/ \E t \in Threads : CheckEnd(t)

SpecLimiter == LimiterInit /\ [][LimiterNext]_vars

\* the accepted calls of the key that took the lock before call i and whose
\* timestamp lies within the window of the timestamp of call i
AcceptedBefore(i) ==
    {j \in 1..(i - 1) : /\ limiter_log[j].key = limiter_log[i].key
                        /\ limiter_log[j].accepted
                        /\ limiter_log[i].now - limiter_log[j].now < rate_limit_window}
\* the timestamps that the accepted calls of a key recorded
AcceptedStamps(key) ==
    {limiter_log[j].now : j \in {i \in DOMAIN limiter_log :
                                    limiter_log[i].key = key /\ limiter_log[i].accepted}}

\* C23: check accepts a call exactly when fewer than max_requests accepted
\* calls of its key lie within the window before it, whatever the order in
\* which concurrent callers take the lock; the store holds timestamps of
\* accepted calls only, and never of another key.
C23_AcceptedIffWindowHasRoom ==
    /\ \A i \in DOMAIN limiter_log :
          limiter_log[i].accepted <=> Cardinality(AcceptedBefore(i)) < MaxRequests
    /\ \A key \in DOMAIN limiter.store :
          Range(limiter.store[key]) \subseteq AcceptedStamps(key)


(***************************************************************************)
(* routers/auth.py: login, one request at a time.  The users table holds   *)
(* two accounts; a password hash verifies exactly its own password.        *)
(***************************************************************************)
MAX_FAILED_ATTEMPTS == 5
LOCKOUT_DURATION == 900

\* how many login attempts the model follows
MaxLogins == 6
\* how often the clock advances between them
MaxLoginTicks == 2
\* the calls of _auth_limiter.check that /register made before the first login
EarlierRequests == 6

Account_Ann == [email |-> <<"a", "@", "x">>, username |-> <<"a", "n", "n">>,
                password |-> "password123"]
Account_Bob == [email |-> <<"b", "@", "x">>, username |-> <<"b", "o", "b">>,
                password |-> "password456"]
Accounts == <<Account_Ann, Account_Bob>>
\* the bodies of POST /api/auth/login (schemas_auth.UserLogin)
UserLogins ==
    {[login |-> login, password |-> password] :
        login \in {Account_Ann.email, Upper(Account_Ann.email), Account_Bob.username},
        password \in {"password123", "password456", "wrongpassword1"}}
LoginClockSteps == {1, LOCKOUT_DURATION - 1}

\* auth_service.authenticate_user: the position of the user in the table, or
\* 0 for None
authenticate_user(users, login, password) ==
    IF \E i \in DOMAIN users : users[i].email = login \/ users[i].username = login
    THEN LET user == IF \E i \in DOMAIN users : users[i].email = login
                     THEN FirstOf({i \in DOMAIN users : users[i].email = login})
                     ELSE FirstOf({i \in DOMAIN users : users[i].username = login})
         IN IF users[user].password = password THEN user ELSE 0
    ELSE 0

\* _check_brute_force, line 42-45: _failed_logins after the check
RecentFailures(failures, login_key, now) ==
    [k \in DOMAIN failures \cup {login_key} |->
        IF k = login_key THEN Recent(StoreGet(failures, login_key), now, LOCKOUT_DURATION)
        ELSE failures[k]]

\* _check_brute_force, line 47, with a lockout one attempt late
LockedOut_AfterOneMore(attempts) == Len(attempts) > MAX_FAILED_ATTEMPTS
\* _check_brute_force, line 47
LockedOut(attempts) == Len(attempts) >= MAX_FAILED_ATTEMPTS

\* _record_failed_login
record_failed_login(failures, login_key, now) ==
    [k \in DOMAIN failures \cup {login_key} |->
        IF k = login_key THEN Append(StoreGet(failures, login_key), now) ELSE failures[k]]

\* _clear_failed_logins
clear_failed_logins(failures, login_key) ==
    [k \in DOMAIN failures \ {login_key} |-> failures[k]]

\* login, lines 96-107, once the rate limiter let the request pass:
\* _failed_logins afterwards, and the response
LoginChecked(failures, login_key, user, now) ==
    IF LockedOut(failures[login_key])
    THEN [failures |-> failures, status |-> 429,
          detail |-> "Too many failed login attempts. Please try again later."]
    ELSE IF user = 0
    THEN [failures |-> record_failed_login(failures, login_key, now), status |-> 401,
          detail |-> "Invalid credentials"]
    ELSE [failures |-> clear_failed_logins(failures, login_key), status |-> 200,
          detail |-> ""]

\* login, lines 95-107, for what _auth_limiter.check did
LoginLimited(limited, data, result) ==
    /\ limiter' = limited.self
    /\ failed_logins' = IF limited.raised THEN failed_logins ELSE result.failures
    /\ login_log' = Append(login_log,
          [key |-> Lower(data.login),
           at |-> clock,
           valid |-> authenticate_user(Accounts, data.login, data.password) # 0,
           status |-> IF limited.raised THEN 429 ELSE result.status,
           detail |-> IF limited.raised THEN "Too many requests. Please try again later."
                      ELSE result.detail])

\* POST /api/auth/login
login(host, data) ==
    /\ Len(login_log) < MaxLogins
    /\ LoginLimited(CheckLocked(limiter, host, clock, rate_limit_window, rate_limit_max_requests),
                    data,
                    LoginChecked(RecentFailures(failed_logins, Lower(data.login), clock),
                                 Lower(data.login),
                                 authenticate_user(Accounts, data.login, data.password),
                                 clock))
    /\ UNCHANGED <<clock, ticks, callers, limiter_log,
                   db_vars, req, ocr_vars, upload_vars, excel_vars, norm_vars, cache_vars>>

\* the clock advances between two requests
LoginTick ==
    /\ ticks < MaxLoginTicks
    /\ ticks' = ticks + 1
    /\ \E d \in LoginClockSteps : clock' = clock + d
    /\ UNCHANGED <<limiter, callers, limiter_log, failed_logins, login_log,
                   db_vars, req, ocr_vars, upload_vars, excel_vars, norm_vars, cache_vars>>

LoginInit ==
    /\ DbInit
    /\ req = [r \in Requests |-> IdleRequest]
    /\ OcrIdle
    /\ UploadIdle
    /\ ExcelIdle
    /\ NormIdle
    /\ clock = cleanup_interval + 1
    /\ ticks = 0
    /\ limiter = [store |-> ("testclient" :> [i \in 1..EarlierRequests |-> cleanup_interval + 1]),
                  last_cleanup |-> cleanup_interval + 1]
    /\ callers = <<>>
    /\ limiter_log = <<>>
    /\ failed_logins = <<>>
    /\ login_log = <<>>
    /\ CacheIdle

LoginNext ==
    \/ LoginTick
    \/ \E data \in UserLogins : login("testclient", data)

SpecLogin == LoginInit /\ [][LoginNext]_vars

\* the attempts before attempt i that failed for its key within the lockout
\* duration, with no successful login for the key since
FailuresBefore(i) ==
    {j \in 1..(i - 1) :
        /\ login_log[j].key = login_log[i].key
        /\ login_log[j].status = 401
        /\ login_log[i].at - login_log[j].at < LOCKOUT_DURATION
        /\ \A k \in (j + 1)..(i - 1) :
              ~(login_log[k].key = login_log[i].key /\ login_log[k].status = 200)}
LockedOutAt(i) ==
    /\ login_log[i].status = 429
    /\ login_log[i].detail = "Too many failed login attempts. Please try again later."

FreshTallyPromotes(m, n) ==
    /\ Len(corrections') = Len(corrections) + 1
    /\ LET row == corrections'[Len(corrections')]
           chosen == Cardinality(RowsChoosing(corrections', m.user_id, m.merchant_normalized,
                                              n.learned_category))
           total == Cardinality(RowsFor(corrections', m.user_id, m.merchant_normalized))
       IN  /\ row.user_id = m.user_id
           /\ row.merchant_normalized = m.merchant_normalized
           /\ row.corrected_category = n.learned_category
           /\ chosen >= 3
           /\ 10 * chosen >= 7 * total

\* every mapping of this state has a mapping of its pair in the next state,
\* the same row unless the step was a promotion for the pair
MappingKeptOrPromoted ==
    \A m \in mappings :
        \E n \in mappings' :
            /\ n.user_id = m.user_id
            /\ n.merchant_normalized = m.merchant_normalized
            /\ n # m => FreshTallyPromotes(m, n)

\* C24: once a mapping exists for (user, merchant_key), one exists in every
\* later state reached by log_correction calls, and it changes only in a call
\* whose fresh tally meets the promotion threshold (its learned category then
\* being the corrected category of that call).
C24_MappingKeptChangedOnlyByPromotion == [][MappingKeptOrPromoted]_vars

\* the first three corrections of the merchant chose Food, which created the
\* mapping; the majority shifted and the mapping now says Other
C24_Witness ==
    /\ Len(corrections) >= 10
    /\ \A i \in 1..3 : corrections[i].corrected_category = "Food"
    /\ \E m \in mappings :
          /\ m.learned_category = "Other"
          /\ m.merchant_normalized = corrections[1].merchant_normalized
          /\ m.user_id = corrections[1].user_id


(***************************************************************************)
(* routers/transactions.py: update_transaction, one request at a time,     *)
(* over the rows that create_transaction stored.  Of the columns that an   *)
(* update can set, the rows of the model keep description and category:    *)
(* an update_dict without them sets amount, date or currency only.         *)
(***************************************************************************)
MaxUpdateTransactions == 2
MaxUpdates == 3

\* TransactionUpdate.model_dump(exclude_unset=True), the modelled columns
UpdateDicts ==
    {<<>>} \cup {[category |-> category] : category \in Categories}
           \cup {[description |-> description] : description \in {D_Pyaterochka, D_Metro}}

\* for field, value in update_dict.items(): setattr(transaction, field, value)
SetAttrs(transaction, update_dict) ==
    [f \in DOMAIN transaction |->
        IF f \in DOMAIN update_dict THEN update_dict[f] ELSE transaction[f]]

\* db.commit() of update_transaction and the response status
UpdateCommit(transaction, session) ==
    IF UniqueViolation(mappings, session.write)
    THEN /\ http_status' = 500
         /\ UNCHANGED <<corrections, mappings, tx_table>>
    ELSE /\ http_status' = 200
         /\ corrections' = SessionView(corrections, session.correction)
         /\ mappings' = MappingsAfter(mappings, session.write)
         /\ tx_table' = [tx_table EXCEPT ![transaction.id] = transaction]

\* POST /api/transactions, keeping the row
CreateStored ==
    /\ tx_seq < MaxUpdateTransactions
    /\ \E data \in PromoteCreates :
          /\ create_transaction(1, data)
          /\ tx_table' = Append(tx_table, NewTransaction(tx_seq + 1, 1, data))
    /\ UNCHANGED <<data_version, analytics_cache, handlers, invalidated, request_log,
                   ocr_vars, upload_vars, excel_vars, norm_vars, web_vars>>

\* PUT /api/transactions/{transaction_id}: the row is loaded and changed;
\* an id that the user does not own is answered 404
update_transaction(user_id, transaction_id, update_dict) ==
    /\ Len(request_log) < MaxUpdates
    /\ request_log' = Append(request_log, [transaction_id |-> transaction_id, update |-> update_dict])
    /\ IF transaction_id \in DOMAIN tx_table /\ tx_table[transaction_id].user_id = user_id
       THEN UpdateCommit(SetAttrs(tx_table[transaction_id], update_dict),
                         log_correction(corrections, mappings,
                                        SetAttrs(tx_table[transaction_id], update_dict),
                                        user_id))
       ELSE /\ http_status' = 404
            /\ UNCHANGED <<corrections, mappings, tx_table>>
    /\ UNCHANGED <<tx_seq, req, data_version, analytics_cache, handlers, invalidated,
                   ocr_vars, upload_vars, excel_vars, norm_vars, web_vars>>

UpdateTransaction ==
    \E transaction_id \in 1..MaxUpdateTransactions, update_dict \in UpdateDicts :
        update_transaction(1, transaction_id, update_dict)

UpdateInit ==
    /\ DbInit
    /\ req = [r \in Requests |-> IdleRequest]
    /\ OcrIdle
    /\ UploadIdle
    /\ ExcelIdle
    /\ NormIdle
    /\ WebIdle
    /\ CacheIdle

UpdateNext ==
    \/ CreateStored
    \/ UpdateTransaction

SpecUpdate == UpdateInit /\ [][UpdateNext]_vars

\* the step is an update (no row was created) that left every category as it was
UpdateKeptCategories ==
    /\ tx_seq' = tx_seq
    /\ request_log' # request_log
    /\ \A id \in DOMAIN tx_table : tx_table'[id].category = tx_table[id].category

\* C25: update_transaction logs a correction only if the update changed the
\* transaction's category: an update that leaves the category as it was
\* appends no CategoryCorrection and triggers no promotion.
C25_UpdateLogsOnlyCategoryChange ==
    [][UpdateKeptCategories => UNCHANGED <<corrections, mappings>>]_vars


\* lines 271-274 of _parse_single_tx: the type of the transaction
TxType(data) ==
    IF "type" \in DOMAIN data.map /\ "name" \in DOMAIN data.map["type"]
       /\ data.map["type"].name \in {"expense", "income"}
    THEN data.map["type"].name
    ELSE "expense"
\* the category names of the kind of the transaction
OwnCategories(income) ==
    IF income THEN VALID_INCOME_CATEGORIES ELSE VALID_CATEGORIES \ VALID_INCOME_CATEGORIES
\* the category that validation must give for a name: the name when it is of the
\* list of the kind, the default of the kind when it is of no list
ValidatedAs(category, name, income) ==
    /\ name \in OwnCategories(income) => category = name
    /\ name \notin VALID_CATEGORIES => category = DefaultCategory(income)
\* the single transactions of the sampled responses that carry a category name
NamedSamples == {Tx_Metro, Tx_Pyaterochka, Tx_Salary, Tx_Bonus}

\* C26: category validation never fails and respects the type of the
\* transaction: a name of the list of its kind is kept, a name of no list
\* becomes Other for an expense and OtherIncome for an income, in the image
\* extractor (without a learned override) and in the spreadsheet
\* categorization.
C26_CategoryValidatedByType ==
    /\ \A data \in NamedSamples :
          (content = Plain(data) /\ outcome # Running /\ mappings = {}) =>
              /\ outcome.kind = "returned"
              /\ \A i \in DOMAIN ReturnedTransactions(outcome.value) :
                    ValidatedAs(ReturnedTransactions(outcome.value)[i].category,
                                data.map["category"].name, TxType(data) = "income")
    /\ categorize_caller = "direct" =>
          \A c \in DOMAIN ai_calls : \A j \in DOMAIN ai_calls[c].entries :
              ( /\ ~ReplyFailed(ai_calls[c].reply)
                /\ ToString(j) \in DOMAIN extract_json(ai_calls[c].reply.content).map
                /\ "name" \in DOMAIN extract_json(ai_calls[c].reply.content).map[ToString(j)] ) =>
                  ValidatedAs(category_map[ai_calls[c].entries[j].desc],
                              extract_json(ai_calls[c].reply.content).map[ToString(j)].name,
                              is_income)


\* ---------------------------------------------------------------------------
\* Row extraction: which data rows give a transaction
\* ---------------------------------------------------------------------------

\* the data rows of the workbook, below the header row
DataRows == DataRowsOf(NonEmptyRows(workbook))
\* the row has a cell in each of the three mapped columns
HasCells(row, mapping) ==
    /\ Len(row) > Max(mapping.date, Max(mapping.amount, mapping.description))
    /\ 0 \notin {PyIndex(row, mapping.date), PyIndex(row, mapping.amount),
                 PyIndex(row, mapping.description)}
AmountCell(row, mapping) == Strip(row[PyIndex(row, mapping.amount)])
DescriptionCell(row, mapping) == Strip(row[PyIndex(row, mapping.description)])
\* the amount is a number (finite or infinite, not NaN) other than zero
NonZeroNumber(amount) ==
    /\ amount # NoRow
    /\ ~IsError(amount)
    /\ amount.kind # "nan"
    /\ ~IsZero(amount)
\* the rows that the claim says give a transaction
GivesTransaction(row, mapping) ==
    /\ HasCells(row, mapping)
    /\ AmountCell(row, mapping) # <<>>
    /\ DescriptionCell(row, mapping) # <<>>
    /\ NonZeroNumber(parse_russian_number(AmountCell(row, mapping)))
RowsGiving(rows, mapping) == SelectSeq(rows, LAMBDA row : GivesTransaction(row, mapping))
\* the raw transaction has the sign as its type and the absolute value
RawMatchesRow(raw, row, amount) ==
    /\ raw.type = (IF amount.neg THEN "expense" ELSE "income")
    /\ raw.amount = [amount EXCEPT !.neg = FALSE]
    /\ raw.description = DescriptionCell(row, col_mapping)
RawMatchRows(raws, rows) ==
    /\ Len(raws) = Len(rows)
    /\ \A i \in DOMAIN rows :
          RawMatchesRow(raws[i], rows[i],
                        parse_russian_number(AmountCell(rows[i], col_mapping)))
Extracted == col_mapping # NoRow /\ excel_pc \notin {"load", "ai_detect", "extract"}

\* C27: once the rows of a workbook are extracted, the raw transactions are
\* exactly the data rows whose amount cell and description cell are non-empty
\* and whose amount parses to a non-zero number, in order; each has the type
\* expense for a negative amount and income for a positive one, and the
\* absolute value as its amount; a row with a zero, empty or unparseable
\* amount is left out and the file fails only when no row gives a transaction.
C27_RowYieldsIffAmountNonZero ==
    Extracted =>
        IF RowsGiving(DataRows, col_mapping) = <<>>
        THEN /\ raw_transactions = <<>>
             /\ excel_outcome =
                    [kind |-> "raised",
                     error |-> Raise("ValueError", "No valid transactions found in Excel file")]
        ELSE RawMatchRows(raw_transactions, RowsGiving(DataRows, col_mapping))


\* C28: whatever corrections were logged one at a time, every stored mapping
\* has a correction_count of at least 3, a confidence from 0.70 to 0.95, and a
\* correction_count not greater than the number of corrections now in the log
\* of its user for its merchant key with its learned category.
C28_StoredMappingBounds ==
    \A m \in mappings :
        /\ m.correction_count >= 3
        /\ m.confidence >= 70
        /\ m.confidence <= 95
        /\ m.correction_count <=
              Cardinality(RowsChoosing(corrections, m.user_id, m.merchant_normalized,
                                       m.learned_category))

\* a mapping promoted by 3 corrections was kept while a fourth correction with
\* its category was logged below the threshold
C28_Witness ==
    \E m \in mappings :
        /\ m.correction_count = 3
        /\ Cardinality(RowsChoosing(corrections, m.user_id, m.merchant_normalized,
                                    m.learned_category)) = 4


\* the confidences an extraction may come with, in hundredths
GivenConfidences == {0, 50, 69, 70, 71, 75, 80, 94, 95, 96, 100}

\* C29: for every mapping that promotion produced, apply_learned_category
\* returns a confidence not below the given one, returns another category only
\* with a strictly higher confidence, and returns a given category of
\* confidence 0.95 or more as it is.
C29_OverrideNeverLowersConfidence ==
    \A u \in Users, d \in Descriptions, c \in Categories, given \in GivenConfidences :
        LET out == apply_learned_category(TRUE, mappings, u, d, c, given)
        IN  /\ out.confidence >= given
            /\ out.category # c => out.confidence > given
            /\ given >= 95 => out = [category |-> c, confidence |-> given]

\* a mapping of confidence 0.95 overrides another category given with 0.94 and
\* leaves one given with 0.95
C29_Witness ==
    \E m \in mappings, d \in Descriptions, c \in Categories :
        /\ m.merchant_normalized = MerchantKey(d)
        /\ m.confidence = 95
        /\ c # m.learned_category
        /\ apply_learned_category(TRUE, mappings, m.user_id, d, c, 94)
              = [category |-> m.learned_category, confidence |-> 95]
        /\ apply_learned_category(TRUE, mappings, m.user_id, d, c, 95)
              = [category |-> c, confidence |-> 95]


(***************************************************************************)
(* The analytics cache (cache.py) under concurrent requests of one user.   *)
(* A read handler looks its key up, and on a miss queries the database and *)
(* stores the result; a write handler commits and then removes the user's  *)
(* keys, one prefix at a time.  Every call of the cache holds its lock, so *)
(* the steps are the calls.  tx_table holds the amounts of the user's      *)
(* committed transactions and data_version counts the commits.  A result   *)
(* carries the data version it was computed from.                          *)
(***************************************************************************)
default_ttl == 300
max_size == 500
MaxReads == 3
MaxWrites == 2
MaxCacheTicks == 1

CachePrefixes == <<"reports", "forecast", "trends", "comparison">>
Handlers == {1, 2}
IdleHandler == [pc |-> "idle"]
CacheClockSteps == {1, default_ttl + 1}

\* make_cache_key(prefix, user_id, **kwargs) for one choice of the parameters
make_cache_key(prefix, user_id) == [prefix |-> prefix, user_id |-> user_id]

\* TTLCache._evict_expired
evict_expired(store, now) ==
    [k \in {k \in DOMAIN store : ~(now > store[k].expires_at)} |-> store[k]]

\* TTLCache.set, lines 37-42: room is made when the store is full
CacheRoom(store) ==
    IF Cardinality(DOMAIN store) >= max_size
    THEN LET oldest_key == CHOOSE k \in DOMAIN store :
                               \A o \in DOMAIN store : store[k].expires_at <= store[o].expires_at
         IN  [k \in DOMAIN store \ {oldest_key} |-> store[k]]
    ELSE store

\* TTLCache.set
CacheSet(store, key, value, now) ==
    LET evicted == IF Cardinality(DOMAIN store) >= max_size
                   THEN evict_expired(store, now) ELSE store
        room == CacheRoom(evicted)
    IN  [k \in DOMAIN room \cup {key} |->
            IF k = key THEN [expires_at |-> now + default_ttl, value |-> value]
            ELSE room[k]]

\* TTLCache.get: the value (NoRow for None) and the store, which loses an
\* expired entry
CacheGet(store, key, now) ==
    IF key \notin DOMAIN store THEN [value |-> NoRow, store |-> store]
    ELSE IF now > store[key].expires_at
    THEN [value |-> NoRow, store |-> [k \in DOMAIN store \ {key} |-> store[k]]]
    ELSE [value |-> store[key].value, store |-> store]

\* TTLCache.invalidate_prefix(f"{prefix}:u{user_id}:")
invalidate_prefix(store, prefix, user_id) ==
    [k \in {k \in DOMAIN store : ~(k.prefix = prefix /\ k.user_id = user_id)} |-> store[k]]

\* the aggregate that a read handler computes from the committed rows
RECURSIVE TotalAmount(_)
TotalAmount(rows) ==
    IF rows = <<>> THEN 0 ELSE Head(rows) + TotalAmount(Tail(rows))
AnalyticsResult(rows, version) ==
    [total_amount |-> TotalAmount(rows), transaction_count |-> Len(rows),
     version |-> version]

\* the rows after the commit of a create, an update or a delete
WriteOps == {"create", "update", "delete"}
RowsAfter(rows, op) ==
    CASE op = "create" -> Append(rows, 100)
      [] op = "update" -> [rows EXCEPT ![1] = 250]
      [] op = "delete" -> Tail(rows)

ReadsBegun ==
    Len(request_log) + Cardinality({h \in Handlers : handlers[h].pc \in {"query", "set"}})

\* time passes
CacheTick ==
    /\ ticks < MaxCacheTicks
    /\ ticks' = ticks + 1
    /\ \E d \in CacheClockSteps : clock' = clock + d
    /\ UNCHANGED <<limiter, callers, limiter_log, failed_logins, login_log,
                   db_vars, req, ocr_vars, upload_vars, excel_vars, norm_vars, cache_vars>>

\* a read handler (get_monthly_reports and the three like it) up to
\* analytics_cache.get: a hit is returned, a miss goes on to the query
ReadGetGiving(h, prefix, got) ==
    /\ analytics_cache' = got.store
    /\ IF got.value # NoRow
       THEN /\ request_log' = Append(request_log,
                                     [prefix |-> prefix, cached |-> TRUE,
                                      version |-> got.value.version,
                                      began_after |-> invalidated])
            /\ UNCHANGED handlers
       ELSE /\ handlers' = [handlers EXCEPT ![h] =
                               [pc |-> "query", prefix |-> prefix,
                                began_after |-> invalidated]]
            /\ UNCHANGED request_log
ReadGet(h) ==
    /\ handlers[h].pc = "idle"
    /\ ReadsBegun < MaxReads
    /\ \E i \in DOMAIN CachePrefixes :
          ReadGetGiving(h, CachePrefixes[i],
                        CacheGet(analytics_cache, make_cache_key(CachePrefixes[i], 1), clock))
    /\ UNCHANGED <<tx_table, data_version, invalidated,
                   db_vars, req, ocr_vars, upload_vars, excel_vars, norm_vars, web_vars>>

\* the handler's queries on the committed rows
ReadQuery(h) ==
    /\ handlers[h].pc = "query"
    /\ handlers' = [handlers EXCEPT ![h] =
                       [pc |-> "set", prefix |-> handlers[h].prefix,
                        began_after |-> handlers[h].began_after,
                        result |-> AnalyticsResult(tx_table, data_version)]]
    /\ UNCHANGED <<tx_table, data_version, analytics_cache, invalidated, request_log,
                   db_vars, req, ocr_vars, upload_vars, excel_vars, norm_vars, web_vars>>

\* analytics_cache.set(cache_key, result); return result
ReadSet(h) ==
    /\ handlers[h].pc = "set"
    /\ analytics_cache' = CacheSet(analytics_cache, make_cache_key(handlers[h].prefix, 1),
                                   handlers[h].result, clock)
    /\ request_log' = Append(request_log,
                             [prefix |-> handlers[h].prefix, cached |-> FALSE,
                              version |-> handlers[h].result.version,
                              began_after |-> handlers[h].began_after])
    /\ handlers' = [handlers EXCEPT ![h] = IdleHandler]
    /\ UNCHANGED <<tx_table, data_version, invalidated,
                   db_vars, req, ocr_vars, upload_vars, excel_vars, norm_vars, web_vars>>

\* db.commit() of create_transaction, update_transaction or delete_transaction
WriteCommit(h) ==
    /\ handlers[h].pc = "idle"
    /\ data_version < MaxWrites
    /\ \E op \in WriteOps :
          /\ op = "create" \/ tx_table # <<>>
          /\ tx_table' = RowsAfter(tx_table, op)
    /\ data_version' = data_version + 1
    /\ handlers' = [handlers EXCEPT ![h] =
                       [pc |-> "invalidate", next |-> 1, version |-> data_version + 1]]
    /\ UNCHANGED <<analytics_cache, invalidated, request_log,
                   db_vars, req, ocr_vars, upload_vars, excel_vars, norm_vars, web_vars>>

\* _invalidate_user_cache: one invalidate_prefix call of the loop; after the
\* last one the write has invalidated the user's cache
Invalidate(h) ==
    /\ handlers[h].pc = "invalidate"
    /\ analytics_cache' = invalidate_prefix(analytics_cache, CachePrefixes[handlers[h].next], 1)
    /\ IF handlers[h].next = Len(CachePrefixes)
       THEN /\ handlers' = [handlers EXCEPT ![h] = IdleHandler]
            /\ invalidated' = Max(invalidated, handlers[h].version)
       ELSE /\ handlers' = [handlers EXCEPT ![h].next = @ + 1]
            /\ UNCHANGED invalidated
    /\ UNCHANGED <<tx_table, data_version, request_log,
                   db_vars, req, ocr_vars, upload_vars, excel_vars, norm_vars, web_vars>>

CacheInit ==
    /\ DbInit
    /\ req = [r \in Requests |-> IdleRequest]
    /\ OcrIdle
    /\ UploadIdle
    /\ ExcelIdle
    /\ NormIdle
    /\ clock = 0 /\ ticks = 0
    /\ limiter = [store |-> <<>>, last_cleanup |-> 0]
    /\ callers = <<>> /\ limiter_log = <<>> /\ failed_logins = <<>> /\ login_log = <<>>
    /\ tx_table = <<>>
    /\ data_version = 0
    /\ analytics_cache = <<>>
    /\ handlers = [h \in Handlers |-> IdleHandler]
    /\ invalidated = 0
    /\ request_log = <<>>

CacheNext ==
    \/ CacheTick
    \/ \E h \in Handlers : ReadGet(h)
    \/ \E h \in Handlers : ReadQuery(h)
    \/ \E h \in Handlers : ReadSet(h)
    \/ \E h \in Handlers : WriteCommit(h)
    \/ \E h \in Handlers : Invalidate(h)

SpecCache == CacheInit /\ [][CacheNext]_vars

\* C30: a read that begins after a write has committed and invalidated the
\* user's cache never returns a cached result computed from the data as it
\* was before that write.
C30_NoStaleCachedReadAfterInvalidation ==
    \A i \in DOMAIN request_log :
        request_log[i].cached => request_log[i].version >= request_log[i].began_after

=============================================================================
